---------------------------- MODULE Spec2Model ----------------------------
(***************************************************************************)
(* The content-deduplication memory of wakapedia-daily-news: the News,     *)
(* Tool and Fact category memories (tools/news_memory_tool.py,             *)
(* tools/tool_memory.py, tools/facts_memory_tool.py).  Each memory keeps   *)
(* a bounded, ordered list of records in one JSON file and offers check,   *)
(* save and list_recent; every call reloads the file.                      *)
(*                                                                         *)
(* Python strings are TLA+ strings; TLC evaluates Len, Head, Tail, SubSeq  *)
(* and \o on them, so the normalizers below are computed character by      *)
(* character as str.rstrip, str.lower and str.strip compute them.          *)
(***************************************************************************)
EXTENDS Integers, Sequences, FiniteSets, TLC

(***************************************************************************)
(* Bounds of the model.                                                    *)
(***************************************************************************)
\* Successful saves of distinct filler keys behind the full-store initial state.
PreFill == 90
\* Successful saves explored after the initial state.
MaxSaves == 2
\* Longest string the normalizers are applied to, and how often in a row.
MaxLen == 3
MaxApply == 2
\* Depth at which the interpreter stops a runaway recursion (RecursionError).
RecursionLimit == 4
\* Temporary files left behind by failed clean-ups.
MaxTmp == 1

(***************************************************************************)
(* Program constants.                                                      *)
(***************************************************************************)
MAX_ENTRIES == 90

\* SIMILARITY_THRESHOLD = 0.4, kept as the exact fraction 4/10.
SIMILARITY_THRESHOLD_NUM == 4
SIMILARITY_THRESHOLD_DEN == 10


(***************************************************************************)
(* Python str methods.                                                     *)
(***************************************************************************)
ASCII_UPPER == "ABCDEFGHIJKLMNOPQRSTUVWXYZ"
ASCII_LOWER == "abcdefghijklmnopqrstuvwxyz"

\* The characters str.strip() and str.split() treat as whitespace.
WHITESPACE == {" ", "\t", "\n", "\r"}

\* The argument of word.strip(".,;:!?\"'()-").
PUNCTUATION == {".", ",", ";", ":", "!", "?", "\"", "'", "(", ")", "-"}

CharAt(s, i) == SubSeq(s, i, i)

\* str.lower() on one character (ASCII letters; the other characters of the
\* model's inputs have no lowercase form).
LowerOf ==
    [c \in {CharAt(ASCII_UPPER, i) : i \in 1..Len(ASCII_UPPER)} |->
        CharAt(ASCII_LOWER, CHOOSE i \in 1..Len(ASCII_UPPER) : CharAt(ASCII_UPPER, i) = c)]

LowerChar(c) == IF c \in DOMAIN LowerOf THEN LowerOf[c] ELSE c

RECURSIVE lower(_)
lower(s) == IF s = "" THEN "" ELSE LowerChar(Head(s)) \o lower(Tail(s))

RECURSIVE rstrip(_, _)
rstrip(s, chars) ==
    IF s # "" /\ CharAt(s, Len(s)) \in chars
    THEN rstrip(SubSeq(s, 1, Len(s) - 1), chars)
    ELSE s

RECURSIVE lstrip(_, _)
lstrip(s, chars) ==
    IF s # "" /\ Head(s) \in chars THEN lstrip(Tail(s), chars) ELSE s

strip(s, chars) == lstrip(rstrip(s, chars), chars)

\* str.split(): the maximal runs of non-whitespace characters, in order.
RECURSIVE SplitFrom(_, _)
SplitFrom(s, word) ==
    IF s = "" THEN (IF word = "" THEN <<>> ELSE <<word>>)
    ELSE IF Head(s) \in WHITESPACE
         THEN (IF word = "" THEN <<>> ELSE <<word>>) \o SplitFrom(Tail(s), "")
         ELSE SplitFrom(Tail(s), word \o Head(s))

split(s) == SplitFrom(s, "")

\* Truth value of a str in a condition: the empty string is false.
Truthy(s) == s # ""

(***************************************************************************)
(* Normalizer (news_memory_tool.py, tool_memory.py).                       *)
(***************************************************************************)
\* url.rstrip("/").lower().strip()
_normalize_url(url) == strip(lower(rstrip(url, {"/"})), WHITESPACE)

\* name.lower().strip()
_normalize_name(name) == strip(lower(name), WHITESPACE)

(***************************************************************************)
(* Similarity engine (facts_memory_tool.py).                               *)
(***************************************************************************)
STOP_WORDS ==
    {
     "le", "la", "les", "un", "une", "des", "du", "de",
     "d", "l", "et", "ou", "a", "au", "aux", "en",
     "dans", "sur", "pour", "par", "avec", "sans", "est", "sont",
     "été", "était", "ce", "cette", "ces", "qui", "que", "dont",
     "où", "quand", "comment", "pourquoi", "son", "sa", "ses", "leur",
     "leurs", "mon", "ma", "mes", "il", "elle", "ils", "elles",
     "on", "nous", "vous", "plus", "moins", "très", "bien", "aussi",
     "comme", "ainsi", "premier", "première", "premiers", "premières", "avoir", "être",
     "fait", "faire", "the", "an", "of", "in", "at", "to",
     "for", "by", "with", "from", "is", "are", "was", "were",
     "been", "be", "has", "have", "had", "this", "that", "these",
     "those", "which", "who", "whom", "whose", "when", "where", "why",
     "how", "first", "one", "two", "three" }

SYNONYMS ==
    {
     <<"mite", "bug_insect">>, <<"moth", "bug_insect">>, <<"papillon", "bug_insect">>,
     <<"insecte", "bug_insect">>, <<"bug", "bug_term">>, <<"bogue", "bug_term">>,
     <<"erreur", "bug_term">>, <<"hopper", "grace_hopper">>, <<"grace", "grace_hopper">>,
     <<"harvard", "harvard_mark">>, <<"mark", "harvard_mark">>, <<"ordinateur", "computer">>,
     <<"computer", "computer">>, <<"informatique", "computer">>, <<"machine", "computer">>,
     <<"origine", "origin">>, <<"origin", "origin">>, <<"histoire", "origin">>,
     <<"history", "origin">>, <<"naissance", "origin">>, <<"1947", "year_1940s">>,
     <<"1940", "year_1940s">>, <<"1940s", "year_1940s">>, <<"1990", "year_1990s">>,
     <<"1990s", "year_1990s">>, <<"1995", "year_1990s">>, <<"1996", "year_1990s">>,
     <<"1997", "year_1990s">>, <<"1998", "year_1990s">>, <<"1999", "year_1990s">>,
     <<"easter", "easter_egg">>, <<"egg", "easter_egg">>, <<"caché", "easter_egg">>,
     <<"cache", "easter_egg">>, <<"hidden", "easter_egg">>, <<"secret", "easter_egg">>,
     <<"simulateur", "simulator_game">>, <<"simulator", "simulator_game">>, <<"jeu", "simulator_game">>,
     <<"game", "simulator_game">>, <<"vol", "flight_sim">>, <<"flight", "flight_sim">>,
     <<"excel", "spreadsheet">>, <<"tableur", "spreadsheet">>, <<"spreadsheet", "spreadsheet">>,
     <<"calc", "spreadsheet">>, <<"microsoft", "microsoft">>, <<"office", "microsoft">>,
     <<"développeur", "developer">>, <<"developpeur", "developer">>, <<"developer", "developer">>,
     <<"programmeur", "developer">>, <<"programmer", "developer">>, <<"ingénieur", "developer">>,
     <<"ingenieur", "developer">>, <<"engineer", "developer">>, <<"email", "email">>,
     <<"mail", "email">>, <<"courriel", "email">>, <<"courrier", "email">>,
     <<"internet", "network">>, <<"arpanet", "network">>, <<"réseau", "network">>,
     <<"reseau", "network">>, <<"network", "network">>, <<"web", "network">>,
     <<"intelligence", "ai">>, <<"artificielle", "ai">>, <<"artificial", "ai">>,
     <<"learning", "ai">>, <<"neural", "ai">>, <<"neurone", "ai">>,
     <<"deep", "ai">>, <<"langage", "programming">>, <<"language", "programming">>,
     <<"programmation", "programming">>, <<"programming", "programming">>, <<"code", "programming">>,
     <<"coder", "programming">>, <<"nasa", "space">>, <<"spatial", "space">>,
     <<"space", "space">>, <<"apollo", "space">>, <<"lune", "space">>,
     <<"moon", "space">>, <<"fusée", "space">>, <<"rocket", "space">>,
     <<"cryptographie", "crypto">>, <<"cryptography", "crypto">>, <<"chiffrement", "crypto">>,
     <<"encryption", "crypto">>, <<"sécurité", "crypto">>, <<"security", "crypto">>,
     <<"hacker", "crypto">>, <<"pirate", "crypto">> }

SynonymsGet(word) ==
    IF \E p \in SYNONYMS : p[1] = word
    THEN (CHOOSE p \in SYNONYMS : p[1] = word)[2]
    ELSE word

_normalize_keyword(word) ==
    SynonymsGet(strip(strip(lower(word), WHITESPACE), PUNCTUATION))

\* Variant: stop words are kept as keywords.
KeywordsOfWord_KeepStopWords(word) ==
    LET clean_word == strip(word, PUNCTUATION)
    IN  IF clean_word = "" THEN {}
        ELSE IF Len(clean_word) < 3 THEN {}
        ELSE {_normalize_keyword(clean_word)}

\* The keywords one word of the text contributes (none or one).
KeywordsOfWord(word) ==
    LET clean_word == strip(word, PUNCTUATION)
    IN  IF clean_word = "" THEN {}
        ELSE IF clean_word \in STOP_WORDS THEN {}
        ELSE IF Len(clean_word) < 3 THEN {}
        ELSE {_normalize_keyword(clean_word)}

_extract_keywords(text) ==
    LET words == split(strip(lower(text), WHITESPACE))
    IN  UNION {KeywordsOfWord(words[i]) : i \in 1..Len(words)}

Min(a, b) == IF a <= b THEN a ELSE b

\* Variant: the larger keyword set is the denominator.
_calculate_similarity_Max(text1, text2) ==
    LET keywords1 == _extract_keywords(text1)
        keywords2 == _extract_keywords(text2)
        c1 == Cardinality(keywords1)
        c2 == Cardinality(keywords2)
    IN  IF keywords1 = {} \/ keywords2 = {} THEN <<0, 1>>
        ELSE <<Cardinality(keywords1 \cap keywords2), IF c1 > c2 THEN c1 ELSE c2>>

\* Variant: the Jaccard index, with the union as the denominator.
_calculate_similarity_Jaccard(text1, text2) ==
    LET keywords1 == _extract_keywords(text1)
        keywords2 == _extract_keywords(text2)
    IN  IF keywords1 = {} \/ keywords2 = {} THEN <<0, 1>>
        ELSE <<Cardinality(keywords1 \cap keywords2), Cardinality(keywords1 \cup keywords2)>>

\* Variant: the keyword set of the first text is the denominator.
_calculate_similarity_First(text1, text2) ==
    LET keywords1 == _extract_keywords(text1)
        keywords2 == _extract_keywords(text2)
    IN  IF keywords1 = {} \/ keywords2 = {} THEN <<0, 1>>
        ELSE <<Cardinality(keywords1 \cap keywords2), Cardinality(keywords1)>>

\* _calculate_similarity as the fraction <<numerator, denominator>>;
\* <<0, 1>> is the 0.0 returned when either keyword set is empty.
_calculate_similarity(text1, text2) ==
    LET keywords1 == _extract_keywords(text1)
        keywords2 == _extract_keywords(text2)
    IN  IF keywords1 = {} \/ keywords2 = {} THEN <<0, 1>>
        ELSE <<Cardinality(keywords1 \cap keywords2),
               Min(Cardinality(keywords1), Cardinality(keywords2))>>

\* Variant: similarity >= SIMILARITY_THRESHOLD
AboveThreshold_Inclusive(similarity) ==
    similarity[1] * SIMILARITY_THRESHOLD_DEN >= SIMILARITY_THRESHOLD_NUM * similarity[2]

\* similarity > SIMILARITY_THRESHOLD
AboveThreshold(similarity) ==
    similarity[1] * SIMILARITY_THRESHOLD_DEN > SIMILARITY_THRESHOLD_NUM * similarity[2]

(***************************************************************************)
(* State.                                                                  *)
(***************************************************************************)
VARIABLES
    cat,    \* the category memory the calls go to: its module and its file
    disk,   \* MEMORY_DIR and MEMORY_FILE of that category:
            \*   dir     - MEMORY_DIR exists
            \*   file    - what MEMORY_FILE holds: "missing" (no file), "valid"
            \*             (a document whose category key holds a list),
            \*             "nonlist" (the category key holds something else),
            \*             "wrong" (JSON without the category key, or not an
            \*             object), "corrupt" (not JSON)
            \*   records - the list under the category key of a valid document
            \*   value   - what the category key holds: "list", or for "nonlist"
            \*             "null", "number" (5) or "string" ("abc")
            \*   bak     - what MEMORY_FILE.with_suffix(".json.bak") holds
            \*   tmp     - how many <prefix>*.tmp files lie in MEMORY_DIR
            \*   faults  - the I/O operations that fail during the call
    hazards, \* the fault sets a call can meet in this environment
    now,    \* the machine clock read by datetime.now()
    saves,  \* successful saves since the initial state
    hist,   \* every record a save has appended so far, in order (history)
    call,   \* the last call: [op, key, key2, limit]
    fault,  \* the I/O operations that failed during it
    ret,    \* what it returned: a verdict, an outcome, or the exception raised
    out,    \* the records it returned or listed
    text,   \* a string handed to a normalizer
    norms,  \* the results of normalizing it again and again
    procs,  \* the processes that run a save step by step, each with
            \*   pc     - where it is: "idle", "begun" (loaded, scanned and
            \*            appended), "tmp" (mkstemp done), "partial" (json.dump
            \*            under way), "written", "done", "raised", "killed"
            \*   call   - its save call
            \*   data   - the list it is about to persist
            \*   before - what MEMORY_FILE held when it loaded
            \*   temp   - what its temporary file holds: "none", "empty",
            \*            "partial" or "full"
            \*   ret    - what its call returned
    seen,   \* what a concurrent _load_memory last read from MEMORY_FILE
    job     \* the newsletter job (main.py): the environment variable
            \* GOOGLE_CHAT_WEBHOOK_URL, and of the last call its name, its
            \* arguments and what it did:
            \*   attempts - kickoff calls made
            \*   sleeps   - the delays slept between them, in order
            \*   content  - the extracted content
            \*   archived, preview - the files written
            \*   posts    - the requests sent to the webhook, in order
            \*   outcome  - "returned" or the exception raised

vars == <<cat, disk, hazards, now, saves, hist, call, fault, ret, out, text, norms,
          procs, seen, job>>

Cats == {"News", "Tool", "Fact"}

\* Verdicts of check: the token the returned message begins with.
OUI == "OUI"
NON == "NON"
ATTENTION == "ATTENTION"
\* Outcomes of save: "... deja enregistre ..., pas de doublon cree." and
\* "... sauvegarde avec succes ...".
ALREADY_SAVED == "ALREADY_SAVED"
SAVED == "SAVED"
\* Outcomes of list ("Aucun ... en memoire ..." / the listing) and of load.
EMPTY == "EMPTY"
LISTED == "LISTED"
LOADED == "LOADED"
\* Exceptions that leave a call.
RecursionError == "RecursionError"
OSError == "OSError"
TypeError == "TypeError"
AttributeError == "AttributeError"
Exceptions == {RecursionError, OSError, TypeError, AttributeError}

\* The I/O operations of the store functions that can fail:
\* MEMORY_DIR.mkdir, open(MEMORY_FILE), MEMORY_FILE.rename, tempfile.mkstemp,
\* json.dump into the temporary file, os.replace, os.unlink.
Faults == {"mkdir", "open", "rename", "mkstemp", "write", "replace", "unlink"}

\* What a file holds.
FileContent(fs) == [file |-> fs.file, records |-> fs.records, value |-> fs.value]
NoFile == [file |-> "missing", records |-> <<>>, value |-> "list"]

\* The values other than a list that the category key can hold.
NonListValues == {"null", "number", "string"}

(***************************************************************************)
(* Durable store: _ensure_memory_file_exists, _load_memory, _save_memory.  *)
(* c is the category; fs is the disk as the call meets it.  Each returns   *)
(* [raised, fs] (and data): raised is "" or the exception that propagates. *)
(***************************************************************************)
RECURSIVE _ensure_memory_file_exists(_, _, _)
RECURSIVE _save_memory(_, _, _, _)

\* MEMORY_DIR.mkdir(parents=True, exist_ok=True)
mkdir(fs) ==
    IF ~fs.dir /\ "mkdir" \in fs.faults THEN [raised |-> OSError, fs |-> fs]
    ELSE [raised |-> "", fs |-> [fs EXCEPT !.dir = TRUE]]

\* MEMORY_DIR.mkdir(parents=True, exist_ok=True)
\* if not MEMORY_FILE.exists(): _save_memory({<key>: []})
_ensure_memory_file_exists(c, fs, depth) ==
    IF depth > RecursionLimit THEN [raised |-> RecursionError, fs |-> fs]
    ELSE LET made == mkdir(fs)
         IN  IF made.raised # "" THEN made
             ELSE IF made.fs.file = "missing"
             THEN _save_memory(c, made.fs, <<>>, depth + 1)
             ELSE made

\* Variant: the document is written into MEMORY_FILE itself, without a
\* temporary file, so a failing write leaves a truncated file.
_save_memory_InPlace(c, fs, data, depth) ==
    IF depth > RecursionLimit THEN [raised |-> RecursionError, fs |-> fs]
    ELSE IF "write" \in fs.faults
    THEN [raised |-> OSError,
          fs |-> [fs EXCEPT !.dir = TRUE, !.file = "corrupt", !.records = <<>>,
                            !.value = "list"]]
    ELSE IF "replace" \in fs.faults THEN [raised |-> OSError, fs |-> fs]
    ELSE [raised |-> "",
          fs |-> [fs EXCEPT !.dir = TRUE, !.file = "valid", !.records = data,
                            !.value = "list"]]

\* news_memory_tool.py and tool_memory.py begin _save_memory with
\* _ensure_memory_file_exists(); facts_memory_tool.py begins it with
\* MEMORY_DIR.mkdir(...).  Then, inside try: mkstemp, json.dump, os.replace;
\* on an exception after mkstemp the temporary file is unlinked (a failure
\* of the unlink is swallowed) and the exception is raised again.
_save_memory(c, fs, data, depth) ==
    IF depth > RecursionLimit THEN [raised |-> RecursionError, fs |-> fs]
    ELSE LET first == IF c = "Fact" THEN mkdir(fs)
                      ELSE _ensure_memory_file_exists(c, fs, depth + 1)
         IN  IF first.raised # "" THEN first
             ELSE IF "mkstemp" \in fs.faults
             THEN [raised |-> OSError, fs |-> first.fs]
             ELSE IF {"write", "replace"} \cap fs.faults # {}
             THEN [raised |-> OSError,
                   fs |-> IF "unlink" \in fs.faults
                          THEN [first.fs EXCEPT !.tmp = @ + 1]
                          ELSE first.fs]
             ELSE [raised |-> "",
                   fs |-> [first.fs EXCEPT !.file = "valid", !.records = data,
                                           !.value = "list"]]

\* The document _load_memory returns: the list under the category key, or
\* (shape) what else the key holds.
Document(fs, data, shape) == [raised |-> "", fs |-> fs, data |-> data, shape |-> shape]

\* Variant: an unparseable file is left where it is, without a backup.
_load_memory_NoBackup(c, fs) ==
    LET e == _ensure_memory_file_exists(c, fs, 1)
    IN  IF e.raised # ""
        THEN [raised |-> e.raised, fs |-> e.fs, data |-> <<>>, shape |-> "list"]
        ELSE IF e.fs.file = "valid" /\ "open" \notin fs.faults
        THEN Document(e.fs, e.fs.records, "list")
        ELSE Document(e.fs, <<>>, "list")

\* Variant: an unparseable file is copied to .json.bak and stays in place.
_load_memory_CopyBackup(c, fs) ==
    LET e == _ensure_memory_file_exists(c, fs, 1)
    IN  IF e.raised # ""
        THEN [raised |-> e.raised, fs |-> e.fs, data |-> <<>>, shape |-> "list"]
        ELSE IF "open" \in fs.faults \/ e.fs.file = "missing"
        THEN Document(e.fs, <<>>, "list")
        ELSE IF e.fs.file = "valid" THEN Document(e.fs, e.fs.records, "list")
        ELSE IF e.fs.file = "nonlist" THEN Document(e.fs, <<>>, e.fs.value)
        ELSE IF e.fs.file = "wrong" THEN Document(e.fs, <<>>, "list")
        ELSE IF "rename" \in fs.faults THEN Document(e.fs, <<>>, "list")
        ELSE Document([e.fs EXCEPT !.bak = FileContent(e.fs)], <<>>, "list")

\* Variant: a file of the wrong structure is renamed to .json.bak as well.
_load_memory_BackupWrong(c, fs) ==
    LET e == _ensure_memory_file_exists(c, fs, 1)
    IN  IF e.raised # ""
        THEN [raised |-> e.raised, fs |-> e.fs, data |-> <<>>, shape |-> "list"]
        ELSE IF "open" \in fs.faults \/ e.fs.file = "missing"
        THEN Document(e.fs, <<>>, "list")
        ELSE IF e.fs.file = "valid" THEN Document(e.fs, e.fs.records, "list")
        ELSE IF e.fs.file = "nonlist" THEN Document(e.fs, <<>>, e.fs.value)
        ELSE IF "rename" \in fs.faults THEN Document(e.fs, <<>>, "list")
        ELSE Document([e.fs EXCEPT !.bak = FileContent(e.fs), !.file = "missing",
                                   !.records = <<>>, !.value = "list"],
                      <<>>, "list")

\* _ensure_memory_file_exists() is called before the try block, so what it
\* raises propagates.  Inside it: open and json.load; a document with the
\* category key is returned as parsed, one without it gives the empty
\* document; JSONDecodeError renames the file to .json.bak (a failure of the
\* rename is swallowed) and gives the empty document; any other exception
\* gives the empty document.
_load_memory(c, fs) ==
    LET e == _ensure_memory_file_exists(c, fs, 1)
    IN  IF e.raised # ""
        THEN [raised |-> e.raised, fs |-> e.fs, data |-> <<>>, shape |-> "list"]
        ELSE IF "open" \in fs.faults \/ e.fs.file = "missing"
        THEN Document(e.fs, <<>>, "list")
        ELSE IF e.fs.file = "valid" THEN Document(e.fs, e.fs.records, "list")
        ELSE IF e.fs.file = "nonlist" THEN Document(e.fs, <<>>, e.fs.value)
        ELSE IF e.fs.file = "wrong" THEN Document(e.fs, <<>>, "list")
        ELSE IF "rename" \in fs.faults THEN Document(e.fs, <<>>, "list")
        ELSE Document([e.fs EXCEPT !.bak = FileContent(e.fs), !.file = "missing",
                                   !.records = <<>>, !.value = "list"],
                      <<>>, "list")

\* for entry in memory.get(<key>, []): entry.get(...) - what it raises when
\* the key holds no list: None and 5 are not iterable, the characters of
\* "abc" have no get.
IterationRaises(shape) ==
    IF shape = "list" THEN ""
    ELSE IF shape = "string" THEN AttributeError
    ELSE TypeError

\* x[-limit:] followed by recent.reverse() - what it raises when x is no
\* list (None is falsy and has been answered before): 5 has no slices, the
\* str slice of "abc" has no reverse.
ListingRaises(shape) ==
    IF shape \in {"list", "null"} THEN ""
    ELSE IF shape = "string" THEN AttributeError
    ELSE TypeError

\* list[-n:] of Python for any integer n (list[-0:] is the whole list).
LastSlice(list, n) ==
    LET len == Len(list)
        start == IF n > 0 THEN (IF len - n > 0 THEN len - n ELSE 0)
                 ELSE IF -n < len THEN -n ELSE len
    IN  SubSeq(list, start + 1, len)

\* Variant: recent.reverse() is left out.
KeepOrder(list) == list

Reverse(list) == [i \in 1..Len(list) |-> list[Len(list) + 1 - i]]


\* Variant: the truncation is left out.
AppendUnbounded(list, new_entry) == Append(list, new_entry)

\* Variant: the first MAX_ENTRIES are kept (list[:MAX_ENTRIES]).
AppendKeepFirst(list, new_entry) ==
    LET appended == Append(list, new_entry)
    IN  IF Len(appended) > MAX_ENTRIES THEN SubSeq(appended, 1, MAX_ENTRIES)
        ELSE appended

\* Variant: the new record is put in front of the list.
AppendBounded_Prepend(list, new_entry) ==
    LET all == <<new_entry>> \o list
    IN  IF Len(all) > MAX_ENTRIES THEN LastSlice(all, MAX_ENTRIES) ELSE all

\* Variant: the save stamps every retained record with the current time.
AppendBounded_Restamp(list, new_entry) ==
    LET all == [i \in 1..(Len(list) + 1) |->
                   IF i <= Len(list) THEN [list[i] EXCEPT !.date_used = new_entry.date_used]
                   ELSE new_entry]
    IN  IF Len(all) > MAX_ENTRIES THEN LastSlice(all, MAX_ENTRIES) ELSE all

\* memory[<key>].append(new_entry); keep only the last MAX_ENTRIES entries.
AppendBounded(list, new_entry) ==
    LET appended == Append(list, new_entry)
    IN  IF Len(appended) > MAX_ENTRIES THEN LastSlice(appended, MAX_ENTRIES)
        ELSE appended

(***************************************************************************)
(* Category memories.  Each handler returns [ret, fs, out, saved]: the     *)
(* returned verdict or outcome (or the exception that propagated), the     *)
(* disk after the call, the records returned or listed, and the records    *)
(* the call appended.                                                      *)
(***************************************************************************)
Result(ret_, fs, out_, saved) == [ret |-> ret_, fs |-> fs, out |-> out_, saved |-> saved]

Raised(m) == Result(m.raised, m.fs, <<>>, <<>>)


IsPrefix(p, s) == Len(p) <= Len(s) /\ SubSeq(s, 1, Len(p)) = p

\* Variant: the scan uses startswith instead of ==.
CheckNewsUrlTool_run_Prefix(fs, url) ==
    LET memory == _load_memory("News", fs)
        normalized_url == _normalize_url(url)
    IN  IF memory.raised # "" THEN Raised(memory)
        ELSE IF IterationRaises(memory.shape) # ""
        THEN Result(IterationRaises(memory.shape), memory.fs, <<>>, <<>>)
        ELSE IF \E i \in 1..Len(memory.data) :
                   IsPrefix(normalized_url, _normalize_url(memory.data[i].url))
        THEN Result(OUI, memory.fs, <<>>, <<>>)
        ELSE Result(NON, memory.fs, <<>>, <<>>)

\* ------------------------------- News -----------------------------------
CheckNewsUrlTool_run(fs, url) ==
    LET memory == _load_memory("News", fs)
        normalized_url == _normalize_url(url)
    IN  IF memory.raised # "" THEN Raised(memory)
        ELSE IF IterationRaises(memory.shape) # ""
        THEN Result(IterationRaises(memory.shape), memory.fs, <<>>, <<>>)
        ELSE IF \E i \in 1..Len(memory.data) :
                   _normalize_url(memory.data[i].url) = normalized_url
        THEN Result(OUI, memory.fs, <<>>, <<>>)
        ELSE Result(NON, memory.fs, <<>>, <<>>)


\* Variant: the scan compares the URLs as given, without normalizing them.
SaveNewsUrlTool_run_Raw(fs, url, title, date) ==
    LET memory == _load_memory("News", fs)
        new_entry == [url |-> url, title |-> title, date_used |-> date]
    IN  IF memory.raised # "" THEN Raised(memory)
        ELSE IF IterationRaises(memory.shape) # ""
        THEN Result(IterationRaises(memory.shape), memory.fs, <<>>, <<>>)
        ELSE IF \E i \in 1..Len(memory.data) : memory.data[i].url = url
        THEN Result(ALREADY_SAVED, memory.fs, <<>>, <<>>)
        ELSE LET w == _save_memory("News", memory.fs,
                                   AppendBounded(memory.data, new_entry), 1)
             IN  IF w.raised # "" THEN Raised(w)
                 ELSE Result(SAVED, w.fs, <<>>, <<new_entry>>)

SaveNewsUrlTool_run(fs, url, title, date) ==
    LET memory == _load_memory("News", fs)
        normalized_url == _normalize_url(url)
        new_entry == [url |-> url, title |-> title, date_used |-> date]
    IN  IF memory.raised # "" THEN Raised(memory)
        ELSE IF IterationRaises(memory.shape) # ""
        THEN Result(IterationRaises(memory.shape), memory.fs, <<>>, <<>>)
        ELSE IF \E i \in 1..Len(memory.data) :
                   _normalize_url(memory.data[i].url) = normalized_url
        THEN Result(ALREADY_SAVED, memory.fs, <<>>, <<>>)
        ELSE LET w == _save_memory("News", memory.fs,
                                   AppendBounded(memory.data, new_entry), 1)
             IN  IF w.raised # "" THEN Raised(w)
                 ELSE Result(SAVED, w.fs, <<>>, <<new_entry>>)

ListUsedNewsUrlsTool_run(fs, limit) ==
    LET memory == _load_memory("News", fs)
    IN  IF memory.raised # "" THEN Raised(memory)
        ELSE IF memory.shape = "null" \/ (memory.shape = "list" /\ memory.data = <<>>)
        THEN Result(EMPTY, memory.fs, <<>>, <<>>)
        ELSE IF ListingRaises(memory.shape) # ""
        THEN Result(ListingRaises(memory.shape), memory.fs, <<>>, <<>>)
        ELSE Result(LISTED, memory.fs, Reverse(LastSlice(memory.data, limit)), <<>>)

\* ------------------------------- Tool -----------------------------------
CheckToolUrlTool_run(fs, url) ==
    LET memory == _load_memory("Tool", fs)
        normalized_url == _normalize_url(url)
    IN  IF memory.raised # "" THEN Raised(memory)
        ELSE IF IterationRaises(memory.shape) # ""
        THEN Result(IterationRaises(memory.shape), memory.fs, <<>>, <<>>)
        ELSE IF \E i \in 1..Len(memory.data) :
                   /\ Truthy(memory.data[i].url)
                   /\ _normalize_url(memory.data[i].url) = normalized_url
        THEN Result(OUI, memory.fs, <<>>, <<>>)
        ELSE Result(NON, memory.fs, <<>>, <<>>)

CheckToolNameTool_run(fs, tool_name) ==
    LET memory == _load_memory("Tool", fs)
        normalized_name == _normalize_name(tool_name)
    IN  IF memory.raised # "" THEN Raised(memory)
        ELSE IF IterationRaises(memory.shape) # ""
        THEN Result(IterationRaises(memory.shape), memory.fs, <<>>, <<>>)
        ELSE IF \E i \in 1..Len(memory.data) :
                   /\ Truthy(memory.data[i].name)
                   /\ _normalize_name(memory.data[i].name) = normalized_name
        THEN Result(OUI, memory.fs, <<>>, <<>>)
        ELSE Result(NON, memory.fs, <<>>, <<>>)

SaveToolTool_run(fs, tool_name, tool_url, date) ==
    LET memory == _load_memory("Tool", fs)
        normalized_name == _normalize_name(tool_name)
        normalized_url == IF Truthy(tool_url) THEN _normalize_url(tool_url) ELSE ""
        new_entry == [name |-> tool_name, url |-> tool_url, date_used |-> date]
    IN  IF memory.raised # "" THEN Raised(memory)
        ELSE IF IterationRaises(memory.shape) # ""
        THEN Result(IterationRaises(memory.shape), memory.fs, <<>>, <<>>)
        ELSE IF \E i \in 1..Len(memory.data) :
                   \/ /\ Truthy(memory.data[i].name)
                      /\ _normalize_name(memory.data[i].name) = normalized_name
                   \/ /\ Truthy(normalized_url)
                      /\ Truthy(memory.data[i].url)
                      /\ _normalize_url(memory.data[i].url) = normalized_url
        THEN Result(ALREADY_SAVED, memory.fs, <<>>, <<>>)
        ELSE LET w == _save_memory("Tool", memory.fs,
                                   AppendBounded(memory.data, new_entry), 1)
             IN  IF w.raised # "" THEN Raised(w)
                 ELSE Result(SAVED, w.fs, <<>>, <<new_entry>>)

ListUsedToolsTool_run(fs, limit) ==
    LET memory == _load_memory("Tool", fs)
    IN  IF memory.raised # "" THEN Raised(memory)
        ELSE IF memory.shape = "null" \/ (memory.shape = "list" /\ memory.data = <<>>)
        THEN Result(EMPTY, memory.fs, <<>>, <<>>)
        ELSE IF ListingRaises(memory.shape) # ""
        THEN Result(ListingRaises(memory.shape), memory.fs, <<>>, <<>>)
        ELSE Result(LISTED, memory.fs, Reverse(LastSlice(memory.data, limit)), <<>>)



\* ------------------------------- Fact -----------------------------------
\* Variant: one loop that answers at the first stored fact that is equal or
\* similar, in stored order.
CheckFactTool_run_OneLoop(fs, fact_summary) ==
    LET memory == _load_memory("Fact", fs)
        normalized_summary == strip(lower(fact_summary), WHITESPACE)
        used_facts == memory.data
        Hit(i) == \/ normalized_summary = strip(lower(used_facts[i].summary), WHITESPACE)
                  \/ AboveThreshold(_calculate_similarity(normalized_summary,
                                                          used_facts[i].summary))
    IN  IF memory.raised # "" THEN Raised(memory)
        ELSE IF IterationRaises(memory.shape) # ""
        THEN Result(IterationRaises(memory.shape), memory.fs, <<>>, <<>>)
        ELSE IF \A i \in 1..Len(used_facts) : ~Hit(i)
        THEN Result(NON, memory.fs, <<>>, <<>>)
        ELSE LET first == CHOOSE i \in 1..Len(used_facts) :
                              Hit(i) /\ \A j \in 1..(i - 1) : ~Hit(j)
             IN  IF normalized_summary = strip(lower(used_facts[first].summary), WHITESPACE)
                 THEN Result(OUI, memory.fs, <<>>, <<>>)
                 ELSE Result(ATTENTION, memory.fs, <<>>, <<>>)

CheckFactTool_run(fs, fact_summary) ==
    LET memory == _load_memory("Fact", fs)
        normalized_summary == strip(lower(fact_summary), WHITESPACE)
        used_facts == memory.data
    IN  IF memory.raised # "" THEN Raised(memory)
        ELSE IF IterationRaises(memory.shape) # ""
        THEN Result(IterationRaises(memory.shape), memory.fs, <<>>, <<>>)
        ELSE IF \E i \in 1..Len(used_facts) :
                   normalized_summary = strip(lower(used_facts[i].summary), WHITESPACE)
        THEN Result(OUI, memory.fs, <<>>, <<>>)
        ELSE IF \E i \in 1..Len(used_facts) :
                   AboveThreshold(_calculate_similarity(normalized_summary,
                                                        used_facts[i].summary))
        THEN Result(ATTENTION, memory.fs, <<>>, <<>>)
        ELSE Result(NON, memory.fs, <<>>, <<>>)

\* Variant: the save turns away a summary that is similar to a stored one.
SaveFactTool_run_Similar(fs, fact_summary, fact_full, date) ==
    LET memory == _load_memory("Fact", fs)
        normalized_summary == strip(lower(fact_summary), WHITESPACE)
        new_entry == [summary |-> fact_summary, full |-> fact_full, date_used |-> date]
    IN  IF memory.raised # "" THEN Raised(memory)
        ELSE IF IterationRaises(memory.shape) # ""
        THEN Result(IterationRaises(memory.shape), memory.fs, <<>>, <<>>)
        ELSE IF CheckFactTool_run(fs, fact_summary).ret \in {OUI, ATTENTION}
        THEN Result(ALREADY_SAVED, memory.fs, <<>>, <<>>)
        ELSE LET w == _save_memory("Fact", memory.fs,
                                   AppendBounded(memory.data, new_entry), 1)
             IN  IF w.raised # "" THEN Raised(w)
                 ELSE Result(SAVED, w.fs, <<>>, <<new_entry>>)

SaveFactTool_run(fs, fact_summary, fact_full, date) ==
    LET memory == _load_memory("Fact", fs)
        normalized_summary == strip(lower(fact_summary), WHITESPACE)
        new_entry == [summary |-> fact_summary, full |-> fact_full, date_used |-> date]
    IN  IF memory.raised # "" THEN Raised(memory)
        ELSE IF IterationRaises(memory.shape) # ""
        THEN Result(IterationRaises(memory.shape), memory.fs, <<>>, <<>>)
        ELSE IF \E i \in 1..Len(memory.data) :
                   strip(lower(memory.data[i].summary), WHITESPACE) = normalized_summary
        THEN Result(ALREADY_SAVED, memory.fs, <<>>, <<>>)
        ELSE LET w == _save_memory("Fact", memory.fs,
                                   AppendBounded(memory.data, new_entry), 1)
             IN  IF w.raised # "" THEN Raised(w)
                 ELSE Result(SAVED, w.fs, <<>>, <<new_entry>>)

ListUsedFactsTool_run(fs, limit) ==
    LET memory == _load_memory("Fact", fs)
    IN  IF memory.raised # "" THEN Raised(memory)
        ELSE IF memory.shape = "null" \/ (memory.shape = "list" /\ memory.data = <<>>)
        THEN Result(EMPTY, memory.fs, <<>>, <<>>)
        ELSE IF ListingRaises(memory.shape) # ""
        THEN Result(ListingRaises(memory.shape), memory.fs, <<>>, <<>>)
        ELSE Result(LISTED, memory.fs, Reverse(LastSlice(memory.data, limit)), <<>>)

\* _load_memory() called directly, as the tests call it.
LoadMemory_run(c, fs) ==
    LET memory == _load_memory(c, fs)
    IN  IF memory.raised # "" THEN Raised(memory)
        ELSE Result(LOADED, memory.fs, memory.data, <<>>)

(***************************************************************************)
(* Inputs of the calls.                                                    *)
(***************************************************************************)
DIGITS == "0123456789"

\* The i-th filler key: "f01", "f02", ...
FillerKey(i) == "f" \o CharAt(DIGITS, (i \div 10) + 1) \o CharAt(DIGITS, (i % 10) + 1)

NewsUrls == {"h/a", " H/A/", "h/a/ ", "/", FillerKey(1)}
Titles == {"t"}
ToolNames == {"", "n", " N"}
ToolUrls == {"", "/", " H/U/"}
FactSummaries ==
    {"first bug moth harvard 1947", "bug moth harvard mark computer 1947",
     " First Bug Moth Harvard 1947", "the", "The ", FillerKey(1)}
FactFulls == {""}
Limits == {-1, 0, 2}

\* The records of n successful saves of the filler keys into the empty store.
Fillers(c, n) ==
    [i \in 1..n |->
        IF c = "News" THEN [url |-> FillerKey(i), title |-> "t", date_used |-> i]
        ELSE IF c = "Tool" THEN [name |-> FillerKey(i), url |-> "h/" \o FillerKey(i), date_used |-> i]
        ELSE [summary |-> FillerKey(i), full |-> "", date_used |-> i]]

NoCall == [op |-> "", key |-> "", key2 |-> "", limit |-> 0]
Call(op, key, key2, limit) == [op |-> op, key |-> key, key2 |-> key2, limit |-> limit]

\* A disk with the given directory and file, no backup and no temporary file.
Disk(dir, file, records, value) ==
    [dir |-> dir, file |-> file, records |-> records, value |-> value,
     bak |-> NoFile, tmp |-> 0, faults |-> {}]

\* The fault sets of an environment where I/O can fail: no fault, any single
\* fault, and a failing write or replace whose clean-up fails too.
FaultSets ==
    {{}} \cup {{f} : f \in Faults} \cup {{"write", "unlink"}, {"replace", "unlink"}}

\* The processes that run a save step by step, and one before its call.
Procs == {"p1", "p2"}
Idle == [pc |-> "idle", call |-> NoCall, data |-> <<>>, before |-> NoFile,
         temp |-> "none", ret |-> ""]

(***************************************************************************)
(* The newsletter job (main.py).  The crew's result is held by what the    *)
(* patterns of the Daily News section find in it:                          *)
(*   section - "Daily News</h2>" is followed by a <p> element              *)
(*   strong  - the text of the <strong> element the paragraph begins with, *)
(*             "" when it begins with none                                 *)
(*   rest    - the text of the paragraph after that element and its dash   *)
(***************************************************************************)
MAX_RETRIES == 3
RETRY_DELAY_BASE == 4

\* The longest title a crew result carries, before padding.
MaxTitle == 62

\* The largest max_retries handed to run_crew_with_retry.
MaxRetriesArg == 4

RECURSIVE Pow2(_)
Pow2(n) == IF n = 0 THEN 1 ELSE 2 * Pow2(n - 1)

\* s[:n]
Prefix(s, n) == IF Len(s) <= n THEN s ELSE SubSeq(s, 1, n)

\* A text of n characters, no two neighbours alike.
RECURSIVE TitleText(_)
TitleText(n) ==
    IF n = 0 THEN "" ELSE TitleText(n - 1) \o CharAt(DIGITS, ((n - 1) % 10) + 1)

\* clean = re.sub(r'<[^>]+>', '', text); return clean.strip()
\* The texts of the model hold no tag.
strip_html_tags(t) == strip(t, WHITESPACE)

\* re.split(r'[.!?]', full_content)[0]
RECURSIVE FirstSentenceFrom(_, _)
FirstSentenceFrom(s, i) ==
    IF i > Len(s) \/ CharAt(s, i) \in {".", "!", "?"} THEN SubSeq(s, 1, i - 1)
    ELSE FirstSentenceFrom(s, i + 1)

FirstSentence(s) == FirstSentenceFrom(s, 1)

\* Variant: the title is cut after 60 characters and the dots are added.
extract_content_from_result_Cut60(doc) ==
    LET matched == doc.section /\ doc.strong # ""
        news_title == strip(doc.strong, WHITESPACE)
        title1 == IF ~matched THEN ""
                  ELSE IF Len(news_title) > 60 THEN Prefix(news_title, 60) \o "..."
                  ELSE news_title
        full_content == IF doc.section THEN strip_html_tags(doc.rest) ELSE ""
        first_sentence == FirstSentence(full_content)
    IN  [news_title |->
            IF doc.section /\ title1 = "" /\ full_content # ""
            THEN IF Len(first_sentence) > 60 THEN Prefix(first_sentence, 57) \o "..."
                 ELSE first_sentence
            ELSE title1,
         news_content |-> full_content]

\* extract_content_from_result(result_str), its Daily News fields.
\* NEWS_TITLE_PATTERN matches when the paragraph begins with a <strong>
\* element of at least one character; NEWS_CONTENT_PATTERN when the section
\* has a paragraph, whose <strong> elements and dash are then removed.
extract_content_from_result(doc) ==
    LET matched == doc.section /\ doc.strong # ""
        news_title == strip(doc.strong, WHITESPACE)
        title1 == IF ~matched THEN ""
                  ELSE IF Len(news_title) > 60 THEN Prefix(news_title, 57) \o "..."
                  ELSE news_title
        full_content == IF doc.section THEN strip_html_tags(doc.rest) ELSE ""
        first_sentence == FirstSentence(full_content)
    IN  [news_title |->
            IF doc.section /\ title1 = "" /\ full_content # ""
            THEN IF Len(first_sentence) > 60 THEN Prefix(first_sentence, 57) \o "..."
                 ELSE first_sentence
            ELSE title1,
         news_content |-> full_content]

\* urlparse(url).hostname of the URLs of the model: the text between the
\* scheme and the next "/", in lower case.
RECURSIVE UpToSlash(_, _)
UpToSlash(s, i) ==
    IF i > Len(s) \/ CharAt(s, i) = "/" THEN SubSeq(s, 1, i - 1) ELSE UpToSlash(s, i + 1)

Hostname(url, scheme) ==
    lower(UpToSlash(SubSeq(url, Len(scheme) + 1, Len(url)), 1))

validate_webhook_url(url) ==
    /\ url # ""
    /\ IsPrefix("https://", url)
    /\ Hostname(url, "https://") = "chat.googleapis.com"

\* What the I/O of a run can fail at.
JobFaults == {"archive", "preview", "post"}

\* send_to_google_chat_card(content): the requests it sends and its result.
send_to_google_chat_card(webhook_url, content, faults) ==
    IF webhook_url = "" THEN [posts |-> <<>>, ok |-> FALSE]
    ELSE IF ~validate_webhook_url(webhook_url) THEN [posts |-> <<>>, ok |-> FALSE]
    ELSE [posts |-> <<[url |-> webhook_url, news_title |-> content.news_title]>>,
          ok |-> "post" \notin faults]

\* What the executions of the crew do, in the order they are started:
\* kickoff returns a result ("ok") or raises an Exception.
KickoffOutcomes(n) == [1..n -> {"ok", "Exception"}]

\* Variant: the loop goes on after an execution that succeeded.
RECURSIVE Attempt_GoesOn(_, _, _, _)
Attempt_GoesOn(attempt, kickoff, max_retries, sleeps) ==
    IF attempt >= max_retries
    THEN [raised |-> \A i \in 1..max_retries : kickoff[i] = "Exception",
          attempts |-> attempt, sleeps |-> sleeps]
    ELSE Attempt_GoesOn(attempt + 1, kickoff, max_retries,
                        IF kickoff[attempt + 1] = "Exception" /\ attempt < max_retries - 1
                        THEN Append(sleeps, RETRY_DELAY_BASE * Pow2(attempt))
                        ELSE sleeps)

\* Variant: the loop sleeps after every failed execution, the last included.
RECURSIVE Attempt_SleepAlways(_, _, _, _)
Attempt_SleepAlways(attempt, kickoff, max_retries, sleeps) ==
    IF attempt >= max_retries
    THEN [raised |-> TRUE, attempts |-> attempt, sleeps |-> sleeps]
    ELSE IF kickoff[attempt + 1] = "ok"
    THEN [raised |-> FALSE, attempts |-> attempt + 1, sleeps |-> sleeps]
    ELSE Attempt_SleepAlways(attempt + 1, kickoff, max_retries,
                             Append(sleeps, RETRY_DELAY_BASE * Pow2(attempt)))

\* for attempt in range(max_retries): the iterations from `attempt` on, where
\* kickoff[i] is what the i-th execution of the crew does.  The result is
\* whether RuntimeError was raised, the number of executions started and the
\* delays slept.
RECURSIVE Attempt(_, _, _, _)
Attempt(attempt, kickoff, max_retries, sleeps) ==
    IF attempt >= max_retries
    THEN [raised |-> TRUE, attempts |-> attempt, sleeps |-> sleeps]
    ELSE IF kickoff[attempt + 1] = "ok"
    THEN [raised |-> FALSE, attempts |-> attempt + 1, sleeps |-> sleeps]
    ELSE Attempt(attempt + 1, kickoff, max_retries,
                 IF attempt < max_retries - 1
                 THEN Append(sleeps, RETRY_DELAY_BASE * Pow2(attempt))
                 ELSE sleeps)

run_crew_with_retry(kickoff, max_retries) == Attempt(0, kickoff, max_retries, <<>>)

NoDoc == [section |-> FALSE, strong |-> "", rest |-> ""]
NoContent == [news_title |-> "", news_content |-> ""]

NoJob(env) ==
    [env |-> env, op |-> "", dry_run |-> FALSE, doc |-> NoDoc, kickoff |-> <<>>,
     max_retries |-> 0, attempts |-> 0,
     sleeps |-> <<>>, content |-> NoContent, archived |-> FALSE, preview |-> FALSE,
     posts |-> <<>>, outcome |-> ""]

\* Variant: the webhook is served whenever the variable is set, and the
\* preview is written besides on a dry run.
run_SendFirst(env, dry_run, kickoff, doc, faults) ==
    LET crew == run_crew_with_retry(kickoff, MAX_RETRIES)
        found == extract_content_from_result(doc)
        content == IF found.news_content = ""
                   THEN [news_title |-> "Actualite tech du jour",
                         news_content |-> "Consultez les dernieres actualites tech."]
                   ELSE found
        base == [NoJob(env) EXCEPT !.op = "run", !.dry_run = dry_run, !.doc = doc,
                                   !.kickoff = kickoff, !.max_retries = MAX_RETRIES,
                                   !.attempts = crew.attempts, !.sleeps = crew.sleeps]
        sent == [base EXCEPT !.content = content, !.archived = "archive" \notin faults,
                             !.posts = send_to_google_chat_card(env, content, faults).posts]
    IN  IF crew.raised THEN [base EXCEPT !.outcome = "RuntimeError"]
        ELSE IF dry_run
        THEN IF "preview" \in faults THEN [sent EXCEPT !.outcome = OSError]
             ELSE [sent EXCEPT !.preview = TRUE, !.outcome = "returned"]
        ELSE [sent EXCEPT !.outcome = "returned"]

\* run(dry_run) in the environment env, when the executions of the crew do
\* what kickoff says, a successful one returns doc, and the I/O of `faults`
\* fails.
run(env, dry_run, kickoff, doc, faults) ==
    LET crew == run_crew_with_retry(kickoff, MAX_RETRIES)
        found == extract_content_from_result(doc)
        content == IF found.news_content = ""
                   THEN [news_title |-> "Actualite tech du jour",
                         news_content |-> "Consultez les dernieres actualites tech."]
                   ELSE found
        base == [NoJob(env) EXCEPT !.op = "run", !.dry_run = dry_run, !.doc = doc,
                                   !.kickoff = kickoff, !.max_retries = MAX_RETRIES,
                                   !.attempts = crew.attempts, !.sleeps = crew.sleeps]
        archived == [base EXCEPT !.content = content, !.archived = "archive" \notin faults]
    IN  IF crew.raised THEN [base EXCEPT !.outcome = "RuntimeError"]
        ELSE IF dry_run
        THEN IF "preview" \in faults THEN [archived EXCEPT !.outcome = OSError]
             ELSE [archived EXCEPT !.preview = TRUE, !.outcome = "returned"]
        ELSE IF env # ""
        THEN [archived EXCEPT !.posts = send_to_google_chat_card(env, content, faults).posts,
                              !.outcome = "returned"]
        ELSE [archived EXCEPT !.outcome = "returned"]

\* The values of GOOGLE_CHAT_WEBHOOK_URL: unset, not https, another host, valid.
WebhookUrls ==
    {"", "http://chat.googleapis.com/v1", "https://chat.example.com/v1",
     "https://chat.googleapis.com/v1"}

Pads == {"", " "}

\* The crew results handed to extract_content_from_result, and the few
\* handed to run.
Docs ==
    {NoDoc}
    \cup {[section |-> TRUE, strong |-> l \o TitleText(n) \o r, rest |-> t] :
            n \in 0..MaxTitle, l \in Pads, r \in Pads,
            t \in {"", "Content here.", " Wait! more ", TitleText(MaxTitle) \o ". End"}}

FewDocs ==
    {NoDoc}
    \cup {[section |-> TRUE, strong |-> TitleText(n), rest |-> t] :
            n \in {0, 60, MaxTitle}, t \in {"", "Content here."}}

(***************************************************************************)
(* Initial states.                                                         *)
(***************************************************************************)
InitIn(c, fs, saved, hz) ==
    /\ cat = c
    /\ disk = fs
    /\ hazards = hz
    /\ now = Len(saved)
    /\ saves = 0
    /\ hist = saved
    /\ call = NoCall
    /\ fault = {}
    /\ ret = ""
    /\ out = <<>>
    /\ text = ""
    /\ norms = <<>>
    /\ procs = [p \in Procs |-> Idle]
    /\ seen = NoFile
    /\ job = NoJob("")

\* An environment where no I/O operation fails.
InitWith(c, fs, saved) == InitIn(c, fs, saved, {{}})

\* The store exists and is empty.
Init ==
    \E c \in Cats : InitWith(c, Disk(TRUE, "valid", <<>>, "list"), <<>>)

\* The empty store, or the store after PreFill successful saves of the filler
\* keys into it: the last MAX_ENTRIES of them.
InitFull ==
    \/ Init
    \/ \E c \in Cats :
          InitWith(c, Disk(TRUE, "valid", LastSlice(Fillers(c, PreFill), MAX_ENTRIES),
                           "list"),
                   Fillers(c, PreFill))

\* First access: the file, and possibly its directory, do not exist yet.
InitDisk ==
    \E c \in Cats, d \in BOOLEAN : InitWith(c, Disk(d, "missing", <<>>, "list"), <<>>)

\* Any on-disk condition: no directory, no file, an empty or a one-record
\* store, or a file that is not a well-formed document.
DiskConditions(c) ==
    {Disk(d, "missing", <<>>, "list") : d \in BOOLEAN}
    \cup {Disk(TRUE, "valid", Fillers(c, n), "list") : n \in 0..1}
    \cup {Disk(TRUE, k, <<>>, "list") : k \in {"wrong", "corrupt"}}
    \cup {Disk(TRUE, "nonlist", <<>>, v) : v \in NonListValues}

\* Any on-disk condition, in an environment where I/O can fail.
InitFault ==
    \E c \in Cats : \E fs \in DiskConditions(c) :
        InitIn(c, fs, Fillers(c, Len(fs.records)), FaultSets)

\* The strings of at most n characters of the normalizers' alphabet.
Alphabet == {"a", "A", "/", " "}

RECURSIVE Strings(_)
Strings(n) ==
    IF n = 0 THEN {""}
    ELSE Strings(n - 1) \cup {s \o c : s \in Strings(n - 1), c \in Alphabet}

\* A normalizer is about to be applied to any string of the alphabet.
InitNorm ==
    /\ text \in Strings(MaxLen)
    /\ norms = <<>>
    /\ cat \in {"News", "Tool"}
    /\ disk = Disk(TRUE, "valid", <<>>, "list")
    /\ hazards = {{}}
    /\ fault = {}
    /\ procs = [p \in Procs |-> Idle]
    /\ seen = NoFile
    /\ job = NoJob("")
    /\ now = 0
    /\ saves = 0
    /\ hist = <<>>
    /\ call = NoCall
    /\ ret = ""
    /\ out = <<>>

(***************************************************************************)
(* Actions: one per handler.                                               *)
(***************************************************************************)
\* The disk as a call meets it: the operations of fl fail during the call.
Meets(fl) == [disk EXCEPT !.faults = fl]

\* The inputs tried: all of S, or only the few where I/O can fail.
Inputs(S, few) == IF hazards = {{}} THEN S ELSE few

\* The call c returned r.  The clock has advanced when a record was stamped.
Returns(c, r) ==
    /\ r.saved = <<>> \/ saves < MaxSaves
    /\ r.fs.tmp <= MaxTmp
    /\ call' = c
    /\ fault' = r.fs.faults
    /\ disk' = [r.fs EXCEPT !.faults = {}]
    /\ ret' = r.ret
    /\ out' = r.out
    /\ hist' = hist \o r.saved
    /\ saves' = saves + Len(r.saved)
    /\ now' = now + Len(r.saved)
    /\ UNCHANGED <<cat, hazards, text, norms, procs, seen, job>>

CheckNewsUrl ==
    /\ cat = "News"
    /\ \E fl \in hazards, url \in Inputs(NewsUrls, {"h/a", FillerKey(1)}) :
          Returns(Call("check_news_url", url, "", 0), CheckNewsUrlTool_run(Meets(fl), url))

SaveNewsUrl ==
    /\ cat = "News"
    /\ \E fl \in hazards, url \in Inputs(NewsUrls, {"h/a", FillerKey(1)}), title \in Titles :
          Returns(Call("save_news_url", url, title, 0),
                  SaveNewsUrlTool_run(Meets(fl), url, title, now + 1))

ListUsedNewsUrls ==
    /\ cat = "News"
    /\ \E fl \in hazards, limit \in Inputs(Limits, {2}) :
          Returns(Call("list_used_news_urls", "", "", limit),
                  ListUsedNewsUrlsTool_run(Meets(fl), limit))

CheckToolUrl ==
    /\ cat = "Tool"
    /\ \E fl \in hazards, url \in Inputs(ToolUrls, {" H/U/"}) :
          Returns(Call("check_tool_url", url, "", 0), CheckToolUrlTool_run(Meets(fl), url))

CheckToolName ==
    /\ cat = "Tool"
    /\ \E fl \in hazards, tool_name \in Inputs(ToolNames, {"n", FillerKey(1)}) :
          Returns(Call("check_tool", tool_name, "", 0), CheckToolNameTool_run(Meets(fl), tool_name))

SaveTool ==
    /\ cat = "Tool"
    /\ \E fl \in hazards, tool_name \in Inputs(ToolNames, {"n", FillerKey(1)}),
          tool_url \in Inputs(ToolUrls, {" H/U/"}) :
          Returns(Call("save_tool_url", tool_name, tool_url, 0),
                  SaveToolTool_run(Meets(fl), tool_name, tool_url, now + 1))

ListUsedTools ==
    /\ cat = "Tool"
    /\ \E fl \in hazards, limit \in Inputs(Limits, {2}) :
          Returns(Call("list_used_tools_urls", "", "", limit),
                  ListUsedToolsTool_run(Meets(fl), limit))

CheckFact ==
    /\ cat = "Fact"
    /\ \E fl \in hazards, fact_summary \in Inputs(FactSummaries, {"the", FillerKey(1)}) :
          Returns(Call("check_fact", fact_summary, "", 0), CheckFactTool_run(Meets(fl), fact_summary))

SaveFact ==
    /\ cat = "Fact"
    /\ \E fl \in hazards, fact_summary \in Inputs(FactSummaries, {"the", FillerKey(1)}), fact_full \in FactFulls :
          Returns(Call("save_fact", fact_summary, fact_full, 0),
                  SaveFactTool_run(Meets(fl), fact_summary, fact_full, now + 1))

ListUsedFacts ==
    /\ cat = "Fact"
    /\ \E fl \in hazards, limit \in Inputs(Limits, {2}) :
          Returns(Call("list_used_facts", "", "", limit),
                  ListUsedFactsTool_run(Meets(fl), limit))

LoadMemory ==
    /\ cat \in Cats
    /\ \E fl \in hazards :
          Returns(Call("load", "", "", 0), LoadMemory_run(cat, Meets(fl)))

\* The value the next normalization is applied to.
Current == IF norms = <<>> THEN text ELSE norms[Len(norms)]

\* _normalize_url applied to the last result (news_memory_tool.py, tool_memory.py)
NormalizeUrl ==
    /\ Len(norms) < MaxApply
    /\ call.op \in {"", "_normalize_url"}
    /\ call' = Call("_normalize_url", text, "", 0)
    /\ norms' = Append(norms, _normalize_url(Current))
    /\ UNCHANGED <<cat, disk, hazards, now, saves, hist, fault, ret, out, text, procs, seen, job>>

\* _normalize_name applied to the last result (tool_memory.py)
NormalizeName ==
    /\ Len(norms) < MaxApply
    /\ cat = "Tool"
    /\ call.op \in {"", "_normalize_name"}
    /\ call' = Call("_normalize_name", text, "", 0)
    /\ norms' = Append(norms, _normalize_name(Current))
    /\ UNCHANGED <<cat, disk, hazards, now, saves, hist, fault, ret, out, text, procs, seen, job>>

Next ==
    \/ CheckNewsUrl \/ SaveNewsUrl \/ ListUsedNewsUrls
    \/ CheckToolUrl \/ CheckToolName \/ SaveTool \/ ListUsedTools
    \/ CheckFact \/ SaveFact \/ ListUsedFacts
    \/ LoadMemory

Spec == Init /\ [][Next]_vars

\* Calls on an existing store, starting empty.
\* SpecFull: the same, also starting from the full store.
\* SpecDisk: the same on first access, when the file does not exist yet.
\* SpecNorm: the normalizers alone, on every string of the alphabet.
SpecFull == InitFull /\ [][Next]_vars

SpecDisk == InitDisk /\ [][Next]_vars

\* SpecFault: the same on any on-disk condition, where I/O can fail.
SpecFault == InitFault /\ [][Next]_vars

NextNorm == NormalizeUrl \/ NormalizeName

SpecNorm == InitNorm /\ [][NextNorm]_vars


(***************************************************************************)
(* A save step by step: the handler up to its call of _save_memory, then   *)
(* mkstemp, json.dump, os.replace, each a step other processes can         *)
(* interleave with.  The store exists, so _ensure_memory_file_exists       *)
(* changes nothing.                                                        *)
(***************************************************************************)
\* The save calls the processes make.
StepCalls(c) ==
    IF c = "News" THEN {Call("save_news_url", k, "t", 0) : k \in {"h/a", FillerKey(2)}}
    ELSE IF c = "Tool" THEN {Call("save_tool_url", k, "", 0) : k \in {"n", FillerKey(2)}}
    ELSE {Call("save_fact", k, "", 0) : k \in {"the", FillerKey(2)}}

\* The outcome of the save call cl on the disk fs when it runs alone and no
\* I/O operation fails.
SaveAlone(fs, cl, date) ==
    IF cl.op = "save_news_url" THEN SaveNewsUrlTool_run(fs, cl.key, cl.key2, date)
    ELSE IF cl.op = "save_tool_url" THEN SaveToolTool_run(fs, cl.key, cl.key2, date)
    ELSE SaveFactTool_run(fs, cl.key, cl.key2, date)

StepFrame == UNCHANGED <<cat, hazards, call, fault, ret, out, text, norms, job>>

\* memory = _load_memory(); the scan for a duplicate; new_entry, append and
\* truncation.  A duplicate ends the call; otherwise the list is ready for
\* _save_memory.
Begin(p) ==
    /\ procs[p].pc = "idle"
    /\ \E cl \in StepCalls(cat) :
          LET r == SaveAlone(disk, cl, now + 1)
          IN  /\ procs' = [procs EXCEPT ![p] =
                    [pc |-> IF r.ret = SAVED THEN "begun" ELSE "done",
                     call |-> cl, data |-> r.fs.records,
                     before |-> FileContent(disk), temp |-> "none",
                     ret |-> IF r.ret = SAVED THEN "" ELSE r.ret]]
              /\ now' = IF r.ret = SAVED THEN now + 1 ELSE now
    /\ UNCHANGED <<disk, saves, hist, seen>>
    /\ StepFrame

\* temp_fd, temp_path = tempfile.mkstemp(dir=MEMORY_DIR, ...)
MakeTemp(p) ==
    /\ procs[p].pc = "begun"
    /\ procs' = [procs EXCEPT ![p].pc = "tmp", ![p].temp = "empty"]
    /\ disk' = [disk EXCEPT !.tmp = @ + 1]
    /\ UNCHANGED <<now, saves, hist, seen>>
    /\ StepFrame

\* Variant: json.dump writes into MEMORY_FILE itself.
WriteTarget(p) ==
    /\ procs[p].pc \in {"tmp", "partial"}
    /\ procs' = [procs EXCEPT ![p].pc = IF @ = "tmp" THEN "partial" ELSE "written",
                              ![p].temp = "empty"]
    /\ disk' = IF procs[p].pc = "tmp"
               THEN [disk EXCEPT !.file = "corrupt", !.records = <<>>]
               ELSE [disk EXCEPT !.file = "valid", !.records = procs[p].data]
    /\ UNCHANGED <<now, saves, hist, seen>>
    /\ StepFrame

\* json.dump(data, f, indent=2, ensure_ascii=False) into the temporary file:
\* a first part of the text, then the rest.
WriteTemp(p) ==
    /\ procs[p].pc \in {"tmp", "partial"}
    /\ procs' = [procs EXCEPT ![p].pc = IF @ = "tmp" THEN "partial" ELSE "written",
                              ![p].temp = IF @ = "empty" THEN "partial" ELSE "full"]
    /\ UNCHANGED <<disk, now, saves, hist, seen>>
    /\ StepFrame

\* Variant: the write merges the new record into what the file holds at that
\* moment instead of replacing the file by the writer's own copy.
ReplaceAppending(p) ==
    /\ procs[p].pc = "written"
    /\ procs' = [procs EXCEPT ![p].pc = "done", ![p].temp = "none", ![p].ret = SAVED]
    /\ disk' = [disk EXCEPT !.file = "valid",
                            !.records = AppendBounded(@, procs[p].data[Len(procs[p].data)]),
                            !.value = "list", !.tmp = @ - 1]
    /\ hist' = Append(hist, procs[p].data[Len(procs[p].data)])
    /\ saves' = saves + 1
    /\ UNCHANGED <<now, seen>>
    /\ StepFrame

\* os.replace(temp_path, MEMORY_FILE), and the return of the success message.
Replace(p) ==
    /\ procs[p].pc = "written"
    /\ procs' = [procs EXCEPT ![p].pc = "done", ![p].temp = "none", ![p].ret = SAVED]
    /\ disk' = [disk EXCEPT !.file = "valid", !.records = procs[p].data,
                            !.value = "list", !.tmp = @ - 1]
    /\ hist' = Append(hist, procs[p].data[Len(procs[p].data)])
    /\ saves' = saves + 1
    /\ UNCHANGED <<now, seen>>
    /\ StepFrame

\* json.dump or os.replace raises: os.unlink(temp_path), then raise.
FailWrite(p) ==
    /\ procs[p].pc \in {"tmp", "partial", "written"}
    /\ procs' = [procs EXCEPT ![p].pc = "raised", ![p].temp = "none", ![p].ret = OSError]
    /\ disk' = [disk EXCEPT !.tmp = @ - 1]
    /\ UNCHANGED <<now, saves, hist, seen>>
    /\ StepFrame

\* The process is killed before os.replace: its temporary file stays.
Kill(p) ==
    /\ procs[p].pc \in {"begun", "tmp", "partial", "written"}
    /\ procs' = [procs EXCEPT ![p].pc = "killed"]
    /\ UNCHANGED <<disk, now, saves, hist, seen>>
    /\ StepFrame

\* The _load_memory of another call opens MEMORY_FILE and reads it.
ConcurrentLoad ==
    /\ \E p \in Procs : procs[p].pc # "idle"
    /\ seen' = FileContent(disk)
    /\ UNCHANGED <<disk, now, saves, hist, procs>>
    /\ StepFrame

NextSteps ==
    \/ \E p \in Procs : Begin(p)
    \/ \E p \in Procs : MakeTemp(p)
    \/ \E p \in Procs : WriteTemp(p)
    \/ \E p \in Procs : Replace(p)
    \/ \E p \in Procs : FailWrite(p)
    \/ \E p \in Procs : Kill(p)
    \/ ConcurrentLoad

\* The store exists and holds no record or one.
InitSteps ==
    \E c \in Cats, n \in 0..1 :
        InitWith(c, Disk(TRUE, "valid", Fillers(c, n), "list"), Fillers(c, n))

\* SpecSteps: saves that run step by step, interleaved with each other, with
\* loads and with failures.
SpecSteps == InitSteps /\ [][NextSteps]_vars

(***************************************************************************)
(* The newsletter job: its calls.                                          *)
(***************************************************************************)
JobFrame ==
    UNCHANGED <<cat, disk, hazards, now, saves, hist, call, fault, ret, out, text, norms,
                procs, seen>>

\* main(): the process carries out the one command of its command line.
Run ==
    /\ job.op = ""
    /\ \E dry_run \in BOOLEAN, kickoff \in KickoffOutcomes(MAX_RETRIES), doc \in FewDocs,
          faults \in SUBSET JobFaults :
          job' = run(job.env, dry_run, kickoff, doc, faults)
    /\ JobFrame

\* extract_content_from_result applied to a crew result.
ExtractContent ==
    /\ job.op = ""
    /\ \E doc \in Docs :
          job' = [NoJob(job.env) EXCEPT !.op = "extract", !.doc = doc,
                                        !.content = extract_content_from_result(doc)]
    /\ JobFrame

\* run_crew_with_retry called with a max_retries of its own.
RunCrewWithRetry ==
    /\ job.op = ""
    /\ \E max_retries \in 0..MaxRetriesArg :
          \E kickoff \in KickoffOutcomes(max_retries) :
             LET crew == run_crew_with_retry(kickoff, max_retries)
             IN  job' = [NoJob(job.env) EXCEPT
                            !.op = "run_crew_with_retry",
                            !.kickoff = kickoff, !.max_retries = max_retries,
                            !.attempts = crew.attempts, !.sleeps = crew.sleeps,
                            !.outcome = IF crew.raised THEN "RuntimeError" ELSE "returned"]
    /\ JobFrame

NextJob == Run \/ ExtractContent \/ RunCrewWithRetry

InitJob ==
    /\ cat = "News"
    /\ disk = Disk(TRUE, "valid", <<>>, "list")
    /\ hazards = {{}}
    /\ now = 0
    /\ saves = 0
    /\ hist = <<>>
    /\ call = NoCall
    /\ fault = {}
    /\ ret = ""
    /\ out = <<>>
    /\ text = ""
    /\ norms = <<>>
    /\ procs = [p \in Procs |-> Idle]
    /\ seen = NoFile
    /\ \E env \in WebhookUrls : job = NoJob(env)

\* SpecJob: runs of the newsletter job and extractions, in any environment.
SpecJob == InitJob /\ [][NextJob]_vars

(***************************************************************************)
(* Checks of facts around the similarity threshold: summaries made of the  *)
(* words of a pool, each of which gives a keyword of its own.              *)
(***************************************************************************)
WordPool == <<"moth", "bug", "harvard", "computer", "1947", "excel", "nasa", "email">>

\* The words of the pool at the positions of S, in order, separated by blanks.
RECURSIVE JoinFrom(_, _)
JoinFrom(S, i) ==
    IF i > Len(WordPool) THEN ""
    ELSE IF i \notin S THEN JoinFrom(S, i + 1)
    ELSE LET tail == JoinFrom(S, i + 1)
         IN  IF tail = "" THEN WordPool[i] ELSE WordPool[i] \o " " \o tail

Summary(S) == JoinFrom(S, 1)

\* The candidates: every summary of at least one word.
PoolSummaries == {Summary(S) : S \in (SUBSET (1..Len(WordPool))) \ {{}}}

\* The stores: a fact of five keywords, a fact of two, or both.
PoolStores ==
    LET five == [summary |-> Summary(1..5), full |-> "", date_used |-> 1]
        two == [summary |-> Summary({6, 7}), full |-> "", date_used |-> 2]
    IN  {<<five>>, <<two>>, <<five, two>>}

InitSim ==
    /\ cat = "Fact"
    /\ \E stored \in PoolStores :
          /\ disk = Disk(TRUE, "valid", stored, "list")
          /\ hist = stored
          /\ now = Len(stored)
    /\ text \in PoolSummaries
    /\ hazards = {{}}
    /\ saves = 0
    /\ call = NoCall
    /\ fault = {}
    /\ ret = ""
    /\ out = <<>>
    /\ norms = <<>>
    /\ procs = [p \in Procs |-> Idle]
    /\ seen = NoFile
    /\ job = NoJob("")

\* CheckFactTool._run applied to the candidate.
CheckFactText ==
    /\ cat = "Fact"
    /\ call.op = ""
    /\ Returns(Call("check_fact", text, "", 0), CheckFactTool_run(Meets({}), text))

\* SpecSim: one check of a candidate against a store of pool facts.
SpecSim == InitSim /\ [][CheckFactText]_vars

(***************************************************************************)
(* The similarity score as a function of two texts, and checks of texts    *)
(* without keywords.                                                       *)
(***************************************************************************)
\* Texts that are empty or made only of whitespace, stop words, tokens
\* shorter than 3 characters or punctuation.
EdgeTexts ==
    {"", " ", "the", "The ", "of the", "ab", "a b", "!!", "...", "the, of!", "(-) x"}

\* Texts with keywords: summaries of the first pool words, one with capitals
\* and punctuation, one whose two words are synonyms, one with a stop word.
ScoreTexts ==
    EdgeTexts
    \cup {Summary(S) : S \in (SUBSET (1..4)) \ {{}}}
    \cup {"Moth, BUG!", "harvard mark", "the moth"}

ScoreStores ==
    LET stop == [summary |-> "the", full |-> "", date_used |-> 1]
        two == [summary |-> Summary({1, 2}), full |-> "", date_used |-> 2]
        three == [summary |-> Summary({1, 2, 3}), full |-> "", date_used |-> 2]
    IN  {<<>>, <<stop>>, <<two>>, <<stop, three>>}

InitScore ==
    /\ cat = "Fact"
    /\ \E stored \in ScoreStores :
          /\ disk = Disk(TRUE, "valid", stored, "list")
          /\ hist = stored
          /\ now = Len(stored)
    /\ text \in ScoreTexts
    /\ hazards = {{}}
    /\ saves = 0
    /\ call = NoCall
    /\ fault = {}
    /\ ret = ""
    /\ out = <<>>
    /\ norms = <<>>
    /\ procs = [p \in Procs |-> Idle]
    /\ seen = NoFile
    /\ job = NoJob("")

\* _calculate_similarity(text, other) and _calculate_similarity(other, text)
Similarity ==
    /\ call.op = ""
    /\ \E other \in ScoreTexts :
          /\ call' = Call("_calculate_similarity", text, other, 0)
          /\ norms' = <<_calculate_similarity(text, other), _calculate_similarity(other, text)>>
    /\ UNCHANGED <<cat, disk, hazards, now, saves, hist, fault, ret, out, text, procs, seen, job>>

NextScore == Similarity \/ CheckFactText

\* SpecScore: one similarity computed both ways round, or one check.
SpecScore == InitScore /\ [][NextScore]_vars

(***************************************************************************)
(* Vocabulary of the properties.                                           *)
(***************************************************************************)
Records == disk.records

Indices(list) == 1..Len(list)

CheckOps == {"check_news_url", "check_tool_url", "check_tool", "check_fact"}
SaveOps == {"save_news_url", "save_tool_url", "save_fact"}

\* What a key is reduced to when letter case, leading and trailing
\* whitespace and (URLs) trailing slashes are disregarded, whatever their order.
CanonUrl(s) == lower(lstrip(rstrip(s, WHITESPACE \cup {"/"}), WHITESPACE))
CanonName(s) == lower(lstrip(rstrip(s, WHITESPACE), WHITESPACE))

\* The field of a stored record that the last check was about.
CheckedField(r) ==
    IF call.op \in {"check_news_url", "check_tool_url"} THEN r.url
    ELSE IF call.op = "check_tool" THEN r.name
    ELSE r.summary

CanonOfCheck(s) ==
    IF call.op \in {"check_news_url", "check_tool_url"} THEN CanonUrl(s) ELSE CanonName(s)

\* C1: once save(K) has succeeded, check(K) with the identical key answers
\* "OUI" while the record is still stored (News by URL, Tool by name and by
\* URL, Fact by summary).  A tool saved with the empty URL has no URL key.
C1_SavedKeyIsFound ==
    ( /\ call.op \in CheckOps
      /\ ret # RecursionError
      /\ call.op = "check_tool_url" => call.key # ""
      /\ \E i \in Indices(Records) : CheckedField(Records[i]) = call.key )
    => ret = OUI

\* C2: check answers "OUI" for every variant of a stored key that differs
\* from it only in letter case, leading or trailing whitespace, or trailing
\* slashes (URL keys), in any combination and order.
C2_VariantsAreFound ==
    ( /\ call.op \in CheckOps
      /\ ret # RecursionError
      /\ \E i \in Indices(Records) :
            CanonOfCheck(CheckedField(Records[i])) = CanonOfCheck(call.key) )
    => ret = OUI

\* C3: normalizing twice gives what normalizing once gives, for
\* _normalize_url and for _normalize_name.
C3_Idempotent == Len(norms) >= 2 => norms[2] = norms[1]

\* C4: check of a key that matches no stored record, whatever its case,
\* whitespace or trailing slashes (so of every key never saved), and that for
\* Fact is not similar above the threshold to a stored summary, answers "NON".
SimilarAboveThreshold(a, b) ==
    LET ta == _extract_keywords(a)
        tb == _extract_keywords(b)
    IN  /\ ta # {} /\ tb # {}
        /\ 10 * Cardinality(ta \cap tb) > 4 * Min(Cardinality(ta), Cardinality(tb))

C4_UnsavedKeyIsNew ==
    ( /\ call.op \in CheckOps
      /\ ret # RecursionError
      /\ \A i \in Indices(Records) :
            CanonOfCheck(CheckedField(Records[i])) # CanonOfCheck(call.key)
      /\ call.op = "check_fact" =>
            (\A j \in Indices(Records) :
                ~SimilarAboveThreshold(call.key, Records[j].summary)) )
    => ret = NON

\* Reached for C4: a check of an unsaved key on a store that holds a record.
C4_Witness ==
    /\ call.op = "check_news_url"
    /\ ret = NON
    /\ Len(Records) >= 1
    /\ \A i \in Indices(Records) : CanonUrl(Records[i].url) # CanonUrl(call.key)

\* C5: a save whose candidate has the normalized key of a stored record
\* returns the already-saved outcome and leaves the persisted document as it
\* was.
HasKeyOf(c, list, key, key2) ==
    \E i \in Indices(list) :
        IF c = "News" THEN _normalize_url(list[i].url) = _normalize_url(key)
        ELSE IF c = "Tool"
        THEN \/ _normalize_name(list[i].name) = _normalize_name(key)
             \/ /\ list[i].url # "" /\ key2 # ""
                /\ _normalize_url(list[i].url) = _normalize_url(key2)
        ELSE _normalize_name(list[i].summary) = _normalize_name(key)

C5_DuplicateSaveWritesNothing ==
    [][( /\ call'.op \in SaveOps
         /\ disk.file = "valid"
         /\ HasKeyOf(cat, disk.records, call'.key, call'.key2) )
       => (ret' = ALREADY_SAVED /\ disk' = disk)]_vars

\* C6: a store never holds more than MAX_ENTRIES records.
C6_AtMostMaxEntries == Len(Records) <= MAX_ENTRIES

\* Reached for C6: a save into a full store has succeeded.
C6_Witness ==
    /\ ret = SAVED
    /\ Len(hist) > MAX_ENTRIES
    /\ Len(Records) = MAX_ENTRIES

\* C7: after MAX_ENTRIES + k saves of pairwise distinct records (k >= 1) the
\* store is the MAX_ENTRIES most recent of them in insertion order, and the k
\* oldest are absent.
KeyFields(r) ==
    IF cat = "News" THEN <<r.url>>
    ELSE IF cat = "Tool" THEN <<r.name, r.url>>
    ELSE <<r.summary>>

PairwiseDistinct(list) ==
    Cardinality({KeyFields(list[i]) : i \in Indices(list)}) = Len(list)

C7_KeepsMostRecent ==
    (Len(hist) > MAX_ENTRIES /\ PairwiseDistinct(hist))
    => /\ Records = SubSeq(hist, Len(hist) - MAX_ENTRIES + 1, Len(hist))
       /\ Records[Len(Records)] = hist[Len(hist)]
       /\ \A old \in 1..(Len(hist) - MAX_ENTRIES) :
             \A kept \in Indices(Records) :
                KeyFields(Records[kept]) # KeyFields(hist[old])

\* Reached for C7: two records beyond the bound have been saved (k = 2).
C7_Witness ==
    /\ Len(hist) = MAX_ENTRIES + 2
    /\ PairwiseDistinct(hist)
    /\ ret = SAVED

\* C8: the News store never holds two records with the same normalized URL,
\* the Fact store never two with the same lowercased, trimmed summary.
C8_NoDuplicateNewsOrFact ==
    \A i, j \in Indices(Records) :
        i # j =>
          /\ cat = "News" => _normalize_url(Records[i].url) # _normalize_url(Records[j].url)
          /\ cat = "Fact" => strip(lower(Records[i].summary), WHITESPACE)
                               # strip(lower(Records[j].summary), WHITESPACE)

\* Reached for C8: a save of a variant of a stored URL was turned away while
\* the store held two records.
C8_Witness ==
    /\ cat = "News"
    /\ call.op = "save_news_url"
    /\ ret = ALREADY_SAVED
    /\ Len(Records) = 2
    /\ \A i \in Indices(Records) : Records[i].url # call.key

\* C9: the Tool store never holds two records with the same normalized name,
\* nor two records with non-empty URLs that have the same normalized URL.
C9_NoDuplicateTool ==
    cat = "Tool" =>
      \A i, j \in Indices(Records) :
          i # j =>
            /\ _normalize_name(Records[i].name) # _normalize_name(Records[j].name)
            /\ (Records[i].url # "" /\ Records[j].url # "")
                 => _normalize_url(Records[i].url) # _normalize_url(Records[j].url)

\* C10: load() on a missing file returns the empty document and leaves the
\* file existing with the empty document in it, in every category.
C10_LoadCreatesMissingFile ==
    [][(call'.op = "load" /\ disk.file = "missing")
       => /\ ret' = LOADED
          /\ out' = <<>>
          /\ disk'.file = "valid"
          /\ disk'.records = <<>>]_vars


(***************************************************************************)
(* Failures, listings and the Fact verdicts.  A property about failures is *)
(* stated for the fault sets it names; the others are stated for calls     *)
(* during which no I/O operation fails.                                    *)
(***************************************************************************)
ListOps == {"list_used_news_urls", "list_used_tools_urls", "list_used_facts"}
ReadOps == CheckOps \cup ListOps

\* The list a load of the file gives: the stored list of a valid document,
\* the empty list otherwise.
Stored(fs) == IF fs.file = "valid" THEN fs.records ELSE <<>>

\* C11: load() of a file that is not JSON returns the empty document without
\* raising, and afterwards the .bak file holds the corrupted content.
C11_CorruptFileIsBackedUp ==
    [][(call'.op = "load" /\ disk.file = "corrupt" /\ fault' = {})
       => /\ ret' = LOADED
          /\ out' = <<>>
          /\ disk'.bak = FileContent(disk)
          /\ disk'.bak.file = "corrupt"]_vars

\* Reached for C11: a load has moved an unparseable file to the .bak path.
C11_Witness ==
    /\ call.op = "load"
    /\ fault = {}
    /\ ret = LOADED
    /\ disk.bak.file = "corrupt"

\* C13: a save that would append, during which the write of the temporary
\* file or the replace fails, raises to its caller, leaves no temporary file
\* behind and leaves the persisted document as it was.
C13_FailedSaveChangesNothing ==
    [][( /\ call'.op \in SaveOps
         /\ fault' \in {{"write"}, {"replace"}}
         /\ SaveAlone(disk, call', now + 1).ret = SAVED )
       => /\ ret' = OSError
          /\ disk'.tmp = disk.tmp
          /\ Stored(disk') = Stored(disk)
          /\ disk.file = "valid" => FileContent(disk') = FileContent(disk)
          /\ hist' = hist]_vars

\* Reached for C13: a save into a store of one record has failed at the write
\* or at the replace.
C13_Witness ==
    /\ call.op \in SaveOps
    /\ fault \in {{"write"}, {"replace"}}
    /\ ret = OSError
    /\ disk.file = "valid"
    /\ Len(Records) = 1

\* C14: for limit >= 1, list_recent lists the min(limit, n) most recently
\* saved records of a store of n records, most recent first.
C14_ListsMostRecentFirst ==
    ( /\ call.op \in ListOps
      /\ call.limit >= 1
      /\ fault = {}
      /\ disk.file = "valid" )
    => LET n == Len(Records)
           m == IF call.limit < n THEN call.limit ELSE n
       IN  /\ Len(out) = m
           /\ \A i \in 1..m : out[i] = Records[n + 1 - i]
           /\ ret = IF n = 0 THEN EMPTY ELSE LISTED

\* Reached for C14: the two most recent of at least three records are listed.
C14_Witness ==
    /\ call.op \in ListOps
    /\ call.limit = 2
    /\ Len(Records) >= 3
    /\ out = <<Records[Len(Records)], Records[Len(Records) - 1]>>

\* C15: for limit <= 0, list_recent of a non-empty store lists no record.
C15_NonPositiveLimitListsNothing ==
    ( /\ call.op \in ListOps
      /\ call.limit <= 0
      /\ fault = {}
      /\ disk.file = "valid"
      /\ Records # <<>> )
    => out = <<>>

\* Stored summary i equals the candidate after lowercasing and trimming.
SameSummary(i, key) == CanonName(Records[i].summary) = CanonName(key)

\* C16: the Fact check answers "OUI" when a stored summary equals the
\* candidate after lowercasing and trimming, wherever it is stored; otherwise
\* "ATTENTION" when a stored summary is similar above the threshold;
\* otherwise "NON".
C16_FactVerdict ==
    (call.op = "check_fact" /\ fault = {} /\ disk.file = "valid")
    => ret = IF \E i \in Indices(Records) : SameSummary(i, call.key) THEN OUI
             ELSE IF \E i \in Indices(Records) :
                        SimilarAboveThreshold(call.key, Records[i].summary)
             THEN ATTENTION
             ELSE NON

\* Reached for C16: the candidate is similar to the first stored fact and equal
\* to the second, and the answer is "OUI".
C16_Witness ==
    /\ call.op = "check_fact"
    /\ ret = OUI
    /\ Len(Records) = 2
    /\ ~SameSummary(1, call.key)
    /\ SimilarAboveThreshold(call.key, Records[1].summary)
    /\ SameSummary(2, call.key)

StoredFact == "first bug moth harvard 1947"
CandidateFact == "bug moth harvard mark computer 1947"

\* C17: the similarity of "bug moth harvard mark computer 1947" to the stored
\* fact "first bug moth harvard 1947" is exactly 1.0, and the check of that
\* candidate on a store holding that fact answers "ATTENTION".
C17_ExampleIsSimilar ==
    cat = "Fact" =>
      /\ LET similarity == _calculate_similarity(CandidateFact, StoredFact)
         IN  similarity[1] = similarity[2] /\ similarity[2] > 0
      /\ ( /\ call.op = "check_fact"
           /\ call.key = CandidateFact
           /\ fault = {}
           /\ Len(Records) = 1
           /\ Records[1].summary = StoredFact )
         => ret = ATTENTION

\* Reached for C17: that check, on the store holding that fact.
C17_Witness ==
    /\ call.op = "check_fact"
    /\ call.key = CandidateFact
    /\ Len(Records) = 1
    /\ Records[1].summary = StoredFact
    /\ ret = ATTENTION

\* C18: whatever the on-disk condition (no directory, no file, a file that
\* cannot be created, read or parsed, a wrong structure) and whatever fails,
\* load, check and list_recent return instead of raising.
C18_LoadNeverRaises ==
    [][(call'.op \in ReadOps \cup {"load"} /\ disk.file # "nonlist")
       => ret' \notin Exceptions]_vars

\* C19: when the category key holds something that is not a list, check and
\* list_recent answer as on an empty store and do not raise.
C19_NonListIsEmpty ==
    [][(call'.op \in ReadOps /\ disk.file = "nonlist" /\ fault' = {})
       => ret' = IF call'.op \in CheckOps THEN NON ELSE EMPTY]_vars

\* C20 as stated: check and list_recent leave the files on disk as they were,
\* whatever the initial on-disk state.
C20_ReadsChangeNothing ==
    [][(call'.op \in ReadOps /\ fault' = {}) => disk' = disk]_vars

\* C20 amended: check and list_recent leave the files on disk as they were
\* when the file exists and is JSON (whatever its structure, and whatever
\* fails); on an unparseable file they move it to the .bak path, and they
\* create a missing directory.
C20_ReadsChangeNothingIfParseable ==
    [][(call'.op \in ReadOps)
       => /\ disk.file \in {"valid", "wrong", "nonlist"} => disk' = disk
          /\ (disk.file = "corrupt" /\ fault' = {})
                => (disk'.file = "missing" /\ disk'.bak = FileContent(disk))
          /\ (~disk.dir /\ fault' = {}) => disk'.dir]_vars

\* Reached for C20: a check or a listing has read a file of the wrong
\* structure and left it in place.
C20_Witness ==
    /\ call.op \in ReadOps
    /\ disk.file = "wrong"
    /\ disk.bak = NoFile
    /\ ret \in {NON, EMPTY}


\* C12: MEMORY_FILE changes only at the os.replace step of a save: it holds a
\* complete document in every state, what a concurrent load reads is a
\* complete document, and while no save has reached its os.replace the file
\* is what it was before, also after a save was killed or has failed.
C12_OnlyReplaceChangesTheFile ==
    /\ [][FileContent(disk') # FileContent(disk)
            => \E p \in Procs : procs[p].pc = "written" /\ procs'[p].pc = "done"]_vars
    /\ [](disk.file = "valid" /\ seen.file \in {"missing", "valid"})
    /\ [](\A p \in Procs :
            (procs[p].pc \notin {"idle", "done"}
               /\ \A q \in Procs : procs[q].ret # SAVED)
            => FileContent(disk) = procs[p].before)

\* Reached for C12: a load has read the file while a save had written part of
\* its temporary file, and that save was then killed.
C12_Witness ==
    \E p \in Procs :
        /\ procs[p].pc = "killed"
        /\ procs[p].temp = "partial"
        /\ seen = procs[p].before
        /\ seen.file = "valid"
        /\ FileContent(disk) = procs[p].before

(***************************************************************************)
(* Concurrent saves.                                                       *)
(***************************************************************************)
\* The normalized key a save compares: the URL (News), the name (Tool; the
\* step calls carry no URL), the summary (Fact).
NormKey(r) ==
    IF cat = "News" THEN _normalize_url(r.url)
    ELSE IF cat = "Tool" THEN _normalize_name(r.name)
    ELSE strip(lower(r.summary), WHITESPACE)

NormKeyOfCall(cl) ==
    IF cat = "News" THEN _normalize_url(cl.key)
    ELSE IF cat = "Tool" THEN _normalize_name(cl.key)
    ELSE strip(lower(cl.key), WHITESPACE)

\* Both processes ran a save of the same key, both found no duplicate in
\* the copy they loaded, and both returned the success message.
BothSavedSameKey ==
    /\ \A p \in Procs : procs[p].pc = "done" /\ procs[p].ret = SAVED
    /\ procs["p1"].call.key = procs["p2"].call.key

WithKey(list, k) == {i \in Indices(list) : NormKey(list[i]) = k}

\* C21 as stated: when two concurrent saves of the same key have both seen
\* "not a duplicate" and both succeeded, the persisted store holds two
\* records with that normalized key.
C21_RaceLeavesDuplicate ==
    BothSavedSameKey
    => Cardinality(WithKey(Records, NormKeyOfCall(procs["p1"].call))) >= 2

\* C21, amended: under every interleaving of two saves the persisted store
\* holds no two records with the same normalized key; when two concurrent
\* saves of the same key both saw "not a duplicate" and both succeeded, the
\* store holds exactly one record with that key, the one of the process
\* whose os.replace came last.
C21_RaceLeavesOneRecord ==
    /\ \A i, j \in Indices(Records) : i # j => NormKey(Records[i]) # NormKey(Records[j])
    /\ BothSavedSameKey
        => Cardinality(WithKey(Records, NormKeyOfCall(procs["p1"].call))) = 1

\* Reached for C21: both processes loaded the same file content, saved the
\* same key and returned success.
C21_Witness ==
    /\ BothSavedSameKey
    /\ procs["p1"].before = procs["p2"].before
    /\ Len(hist) >= 2
    /\ NormKey(hist[Len(hist)]) = NormKey(hist[Len(hist) - 1])

\* C22: under any interleaving of concurrent saves, every save that returned
\* the success message has its record in the persisted store afterwards.
C22_SuccessfulSaveIsStored ==
    \A p \in Procs :
        (procs[p].pc = "done" /\ procs[p].ret = SAVED)
        => WithKey(Records, NormKeyOfCall(procs[p].call)) # {}

(***************************************************************************)
(* The newsletter job.                                                     *)
(***************************************************************************)
\* C23: a run with dry_run=True sends no request to the Google Chat webhook
\* on any path, whether or not GOOGLE_CHAT_WEBHOOK_URL is set.
C23_DryRunSendsNothing ==
    (job.op = "run" /\ job.dry_run) => job.posts = <<>>

\* Reached for C23: a dry run with a valid webhook URL set has generated the
\* newsletter and written its preview.
C23_Witness ==
    /\ job.op = "run"
    /\ job.dry_run
    /\ validate_webhook_url(job.env)
    /\ job.outcome = "returned"
    /\ job.preview
    /\ job.posts = <<>>

\* The title of the <strong> element, as group(1).strip() gives it.
StrongTitle == strip(job.doc.strong, WHITESPACE)

\* C24: extract_content_from_result yields a news_title of at most 60
\* characters; a title taken from the <strong> element that is longer than 60
\* characters becomes its first 57 characters followed by "...", and one of 60
\* characters or fewer is kept unchanged.
C24_TitleAtMost60 ==
    job.op = "extract" =>
      /\ Len(job.content.news_title) <= 60
      /\ (job.doc.section /\ StrongTitle # "") =>
            job.content.news_title =
               IF Len(StrongTitle) > 60 THEN SubSeq(StrongTitle, 1, 57) \o "..."
               ELSE StrongTitle

\* Reached for C24: a title of 61 characters was cut to 60.
C24_Witness ==
    /\ job.op = "extract"
    /\ job.doc.section
    /\ Len(StrongTitle) = 61
    /\ Len(job.content.news_title) = 60
    /\ SubSeq(job.content.news_title, 58, 60) = "..."

(***************************************************************************)
(* Recovery.                                                               *)
(***************************************************************************)
\* C25: load() of a file that parses but is not an object with the category
\* key renames the file to the .bak path and returns the empty document.
C25_WrongStructureIsBackedUp ==
    [][(call'.op = "load" /\ disk.file = "wrong" /\ fault' = {})
       => /\ ret' = LOADED
          /\ out' = <<>>
          /\ disk'.bak = FileContent(disk)]_vars

\* C26 as stated: after load() has handled a parse failure and the backup
\* has succeeded, the original file is still at its path with its content,
\* and the .bak file holds a copy of it.
C26_OriginalStaysInPlace ==
    [][(call'.op = "load" /\ disk.file = "corrupt" /\ fault' = {})
       => /\ FileContent(disk') = FileContent(disk)
          /\ disk'.bak = FileContent(disk)]_vars

\* C26, amended: after load() (alone or at the start of a check or a
\* listing) has handled a parse failure and the backup has succeeded, the
\* .bak file holds the corrupted content and MEMORY_FILE no longer exists at
\* its original path: the file was renamed, not copied.
C26_BackupMovesTheFile ==
    [][( /\ call'.op \in ReadOps \cup {"load"}
         /\ disk.file = "corrupt"
         /\ fault' \cap {"open", "rename"} = {} )
       => /\ disk'.bak = FileContent(disk)
          /\ disk'.file = "missing"
          /\ ret' \notin Exceptions]_vars

\* Reached for C26: a load has handled an unparseable file; the .bak path
\* holds it and the original path holds nothing.
C26_Witness ==
    /\ call.op = "load"
    /\ ret = LOADED
    /\ fault = {}
    /\ disk.bak.file = "corrupt"
    /\ disk.file = "missing"
    /\ disk.dir

\* C27: in every category, after a call has met a malformed document, a
\* missing file or a missing directory, the next save(K) returns the success
\* message and the persisted store then holds exactly the record K.  (A call
\* has been made and has left no valid document behind; no call makes a
\* valid document invalid, so it met one of these conditions.)
C27_NextSaveHeals ==
    [][( /\ call.op # ""
         /\ fault = {}
         /\ disk.file \in {"missing", "wrong", "corrupt"}
         /\ call'.op \in SaveOps
         /\ fault' = {} )
       => /\ ret' = SAVED
          /\ disk'.file = "valid"
          /\ Len(disk'.records) = 1
          /\ KeyFields(disk'.records[1]) =
                IF cat = "Tool" THEN <<call'.key, call'.key2>> ELSE <<call'.key>>]_vars

(***************************************************************************)
(* The guard of save against the verdicts of check.                        *)
(***************************************************************************)
\* check, on the store fs, gives the exact-duplicate verdict for the
\* candidate of the save call cl: check of its URL (News), check-by-name of
\* its name or check-by-URL of its URL (Tool), check of its summary (Fact).
CheckFindsDuplicate(fs, cl) ==
    IF cl.op = "save_news_url" THEN CheckNewsUrlTool_run(fs, cl.key).ret = OUI
    ELSE IF cl.op = "save_tool_url"
    THEN \/ CheckToolNameTool_run(fs, cl.key).ret = OUI
         \/ CheckToolUrlTool_run(fs, cl.key2).ret = OUI
    ELSE CheckFactTool_run(fs, cl.key).ret = OUI

\* C28: in every category, on every store and for every candidate, save
\* returns the already-saved outcome exactly when check on that same store
\* gives the exact-duplicate verdict for the candidate, and appends a record
\* otherwise.
C28_SaveGuardIsCheck ==
    [][(call'.op \in SaveOps /\ disk.file = "valid")
       => IF CheckFindsDuplicate(disk, call')
          THEN ret' = ALREADY_SAVED /\ disk' = disk
          ELSE /\ ret' = SAVED
               /\ Len(hist') = Len(hist) + 1
               /\ disk'.records = AppendBounded(disk.records, hist'[Len(hist')])]_vars

Shared(a, b) == Cardinality(_extract_keywords(a) \cap _extract_keywords(b))
Smaller(a, b) ==
    Min(Cardinality(_extract_keywords(a)), Cardinality(_extract_keywords(b)))

\* The score of the candidate against stored record i is above, or exactly,
\* 0.4 = 2/5: shared / smaller compared as 5 * shared with 2 * smaller.
ScoreAbove(i) == 5 * Shared(call.key, Records[i].summary) > 2 * Smaller(call.key, Records[i].summary)
ScoreExactly(i) == 5 * Shared(call.key, Records[i].summary) = 2 * Smaller(call.key, Records[i].summary)

\* C30: the threshold is strict.  A candidate whose best similarity against
\* the stored summaries is exactly 0.4 is classified new ("NON"); a candidate
\* that is no exact duplicate and has a score above 0.4 is classified similar
\* ("ATTENTION").
C30_ThresholdIsStrict ==
    ( /\ call.op = "check_fact"
      /\ \A i \in Indices(Records) : ~SameSummary(i, call.key) )
    => /\ ( /\ \E i \in Indices(Records) : ScoreExactly(i)
            /\ \A i \in Indices(Records) : ~ScoreAbove(i) ) => ret = NON
       /\ (\E i \in Indices(Records) : ScoreAbove(i)) => ret = ATTENTION

\* Reached for C30: the candidate shares 2 keywords with the stored fact of
\* 5 and has 5 keywords itself (2/5 = 0.4), and was classified new.
C30_Witness ==
    /\ call.op = "check_fact"
    /\ ret = NON
    /\ Len(Records) = 1
    /\ Shared(call.key, Records[1].summary) = 2
    /\ Smaller(call.key, Records[1].summary) = 5
    /\ Cardinality(_extract_keywords(call.key)) = 5

(***************************************************************************)
(* The similarity score.                                                   *)
(***************************************************************************)
\* The canonical tag sets of the two texts of the last similarity call.
Tags1 == _extract_keywords(call.key)
Tags2 == _extract_keywords(call.key2)

\* C31: for non-empty tag sets the score is |tags1 \cap tags2| divided by
\* min(|tags1|, |tags2|); when one tag set is a non-empty subset of the other
\* the score is exactly 1.0; every score lies in [0, 1].
C31_ScoreIsOverlapOverMin ==
    call.op = "_calculate_similarity" =>
      LET score == norms[1]
      IN  /\ score[2] > 0
          /\ 0 <= score[1] /\ score[1] <= score[2]
          /\ (Tags1 # {} /\ Tags2 # {}) =>
                /\ score[1] * Min(Cardinality(Tags1), Cardinality(Tags2))
                      = Cardinality(Tags1 \cap Tags2) * score[2]
                /\ (Tags1 \subseteq Tags2 \/ Tags2 \subseteq Tags1) => score[1] = score[2]

\* Reached for C31: a text of two tags scored 1.0 against a text of four
\* tags that contain them.
C31_Witness ==
    /\ call.op = "_calculate_similarity"
    /\ Cardinality(Tags1) = 2
    /\ Cardinality(Tags2) = 4
    /\ Tags1 \subseteq Tags2
    /\ norms[1][1] = norms[1][2]

\* C32: the score is symmetric: _calculate_similarity(a, b) equals
\* _calculate_similarity(b, a) for all texts a and b.
C32_ScoreIsSymmetric ==
    call.op = "_calculate_similarity" =>
      norms[1][1] * norms[2][2] = norms[2][1] * norms[1][2]

\* Reached for C32: two texts with tag sets of different sizes that share a
\* tag without one containing the other.
C32_Witness ==
    /\ call.op = "_calculate_similarity"
    /\ Cardinality(Tags1) < Cardinality(Tags2)
    /\ Tags1 \cap Tags2 # {}
    /\ ~(Tags1 \subseteq Tags2)
    /\ norms[1] = norms[2]

\* C33: a text that is empty or made only of stop words, tokens shorter than
\* 3 characters or punctuation has an empty tag set and similarity 0.0
\* against every text; the Fact check never answers "ATTENTION" for it, and
\* answers "OUI" exactly when a stored summary equals it after lowercasing
\* and trimming.
C33_NoKeywordsNoSimilarity ==
    /\ (call.op = "_calculate_similarity" /\ call.key \in EdgeTexts)
          => /\ Tags1 = {}
             /\ norms[1][1] = 0
             /\ norms[2][1] = 0
    /\ (call.op = "check_fact" /\ call.key \in EdgeTexts)
          => /\ _extract_keywords(call.key) = {}
             /\ ret \in {OUI, NON}
             /\ ret = OUI <=> \E i \in Indices(Records) : SameSummary(i, call.key)

\* Reached for C33: a candidate made of a stop word was answered "OUI"
\* because the stored summary is the same stop word in another case.
C33_Witness ==
    /\ call.op = "check_fact"
    /\ call.key = "The "
    /\ Len(Records) = 2
    /\ Records[1].summary = "the"
    /\ ret = OUI

(***************************************************************************)
(* The two keys of the Tool save.                                          *)
(***************************************************************************)
\* A stored record has the normalized name of the candidate; a stored record
\* has its normalized URL (a tool stored or offered with the empty URL has no
\* URL key).
NameMatches(list, tool_name) ==
    \E i \in Indices(list) : _normalize_name(list[i].name) = _normalize_name(tool_name)

UrlMatches(list, tool_url) ==
    \E i \in Indices(list) :
        /\ list[i].url # "" /\ tool_url # ""
        /\ _normalize_url(list[i].url) = _normalize_url(tool_url)

\* C34: the Tool save returns the already-saved outcome when the normalized
\* name equals a stored name, whatever the URL, and when the name is new but
\* the normalized URL equals a stored URL; it appends only when neither
\* matches.
C34_ToolSaveRejectsEitherKey ==
    [][(call'.op = "save_tool_url" /\ disk.file = "valid")
       => IF NameMatches(disk.records, call'.key) \/ UrlMatches(disk.records, call'.key2)
          THEN ret' = ALREADY_SAVED /\ disk' = disk
          ELSE /\ ret' = SAVED
               /\ disk'.records = AppendBounded(disk.records, hist'[Len(hist')])]_vars

(***************************************************************************)
(* The life of a record.                                                   *)
(***************************************************************************)
\* C35: across any sequence of check, save and list_recent calls a stored
\* record keeps its fields (date_used included) and its place among the
\* retained records; a record is created only by a save that returns the
\* success message, at the end of the list; a record leaves the store only
\* as the oldest one, when that save finds the store at its bound.
C35_RecordsAreImmutable ==
    [][(fault' = {} /\ disk.file = "valid")
       => \/ /\ disk'.records = disk.records
             /\ ret' # SAVED
          \/ /\ call'.op \in SaveOps
             /\ ret' = SAVED
             /\ disk'.records[Len(disk'.records)] = hist'[Len(hist')]
             /\ IF Len(disk.records) < MAX_ENTRIES
                THEN SubSeq(disk'.records, 1, Len(disk'.records) - 1) = disk.records
                ELSE /\ Len(disk'.records) = MAX_ENTRIES
                     /\ SubSeq(disk'.records, 1, MAX_ENTRIES - 1)
                           = SubSeq(disk.records, 2, MAX_ENTRIES)]_vars

\* Reached for C35: two saves into the full store have evicted the two
\* oldest records, and a listing has followed.
C35_Witness ==
    /\ call.op \in ListOps
    /\ Len(hist) = MAX_ENTRIES + 2
    /\ Len(Records) = MAX_ENTRIES
    /\ Records = SubSeq(hist, 3, Len(hist))

(***************************************************************************)
(* The retries of the crew.                                                *)
(***************************************************************************)
Retried == job.op \in {"run", "run_crew_with_retry"}

RaisedRuntimeError == job.outcome = "RuntimeError"

AllFailed == \A i \in 1..job.max_retries : job.kickoff[i] = "Exception"

\* C36: run_crew_with_retry starts at most max_retries executions of the
\* crew; it stops at the first one that succeeds, every execution before it
\* having failed and none being started after it; it raises RuntimeError
\* exactly when all max_retries executions have failed.
C36_StopsAtFirstSuccess ==
    Retried
    => /\ job.attempts <= job.max_retries
       /\ RaisedRuntimeError <=> AllFailed
       /\ RaisedRuntimeError => job.attempts = job.max_retries
       /\ ~RaisedRuntimeError
          => /\ job.attempts >= 1
             /\ job.kickoff[job.attempts] = "ok"
             /\ \A i \in 1..(job.attempts - 1) : job.kickoff[i] = "Exception"

\* Reached for C36: the second execution succeeded and the third, which
\* would have succeeded too, was never started.
C36_Witness ==
    /\ job.op = "run_crew_with_retry"
    /\ job.max_retries = MAX_RETRIES
    /\ job.kickoff = <<"Exception", "ok", "ok">>
    /\ job.attempts = 2
    /\ job.outcome = "returned"

\* The failed executions that were followed by another one.
FailedNotLast ==
    IF RaisedRuntimeError
    THEN (IF job.max_retries = 0 THEN 0 ELSE job.max_retries - 1)
    ELSE job.attempts - 1

\* C37: after failed attempt i (counted from 0) that is not the last one,
\* run_crew_with_retry sleeps RETRY_DELAY_BASE * 2^i seconds, 4 and then 8
\* with the defaults, and it does not sleep after the last failed attempt.
C37_BackoffIsExponential ==
    Retried
    => /\ Len(job.sleeps) = FailedNotLast
       /\ \A i \in 0..(Len(job.sleeps) - 1) : job.sleeps[i + 1] = RETRY_DELAY_BASE * 2^i
       /\ job.op = "run" => job.sleeps \in {<<>>, <<4>>, <<4, 8>>}

\* Reached for C37: run met three failed executions, slept 4 and 8 seconds
\* after the first two and raised after the third.
C37_Witness ==
    /\ job.op = "run"
    /\ job.attempts = MAX_RETRIES
    /\ RaisedRuntimeError
    /\ job.sleeps = <<4, 8>>

(***************************************************************************)
(* A key after its eviction.                                               *)
(***************************************************************************)
EmptyStore == Disk(TRUE, "valid", <<>>, "list")

\* The record a save of the key into a store without it appends.
SaveOf(c, key, date) ==
    IF c = "News" THEN SaveNewsUrlTool_run(EmptyStore, key, "t", date).saved
    ELSE IF c = "Tool" THEN SaveToolTool_run(EmptyStore, key, "h/" \o key, date).saved
    ELSE SaveFactTool_run(EmptyStore, key, "", date).saved

\* The key whose record is evicted, and the keys of the last of the saves
\* that evict it: another filler, or for a fact a summary similar to it.
EvictedKeys(c) ==
    IF c = "News" THEN {"h/a"}
    ELSE IF c = "Tool" THEN {"n"}
    ELSE {"first bug moth harvard 1947"}

LaterKeys(c) ==
    IF c = "Fact" THEN {FillerKey(PreFill + 1), "bug moth harvard mark computer 1947"}
    ELSE {FillerKey(PreFill + 1)}

\* The successful saves of k, of the fillers after the first, and of last.
Evicting(c, k, last) ==
    SaveOf(c, k, 1) \o Tail(Fillers(c, PreFill)) \o SaveOf(c, last, PreFill + 1)

\* The store after those saves: the record of k has left it.
InitEvict ==
    \E c \in Cats : \E k \in EvictedKeys(c), last \in LaterKeys(c) :
        InitWith(c, Disk(TRUE, "valid", LastSlice(Evicting(c, k, last), MAX_ENTRIES),
                         "list"),
                 Evicting(c, k, last))

SpecEvict == InitEvict /\ [][Next]_vars

\* The key of the call was saved once and no retained record has it.
EvictedKey(cl) ==
    /\ cat \in {"News", "Fact"}
    /\ disk.file = "valid"
    /\ WithKey(hist, NormKeyOfCall(cl)) # {}
    /\ WithKey(Records, NormKeyOfCall(cl)) = {}

\* The save of an evicted key succeeds and its record is the newest one.
SaveReadmits ==
    (call'.op \in SaveOps /\ EvictedKey(call'))
    => /\ ret' = SAVED
       /\ disk'.records[Len(disk'.records)] = hist'[Len(hist')]
       /\ NormKey(disk'.records[Len(disk'.records)]) = NormKeyOfCall(call')
       /\ Cardinality(WithKey(disk'.records, NormKeyOfCall(call'))) = 1

\* Some retained fact is similar to the summary of the call.
SimilarRetained(cl) ==
    /\ cat = "Fact"
    /\ \E i \in Indices(Records) :
          AboveThreshold(_calculate_similarity(strip(lower(cl.key), WHITESPACE),
                                               Records[i].summary))

\* C38 as stated: once the record of key K has been evicted by later
\* successful saves of distinct keys, check(K) returns NON, and save(K)
\* returns the success message and stores K again as the newest record.
C38_EvictedKeyIsNew ==
    [][/\ (call'.op \in CheckOps /\ EvictedKey(call')) => ret' = NON
       /\ SaveReadmits]_vars

\* C38, amended: once the record of key K has been evicted, check(K) never
\* returns OUI: it returns NON, except for a fact that is similar to a
\* retained one, where it returns ATTENTION; save(K) returns the success
\* message and stores K again as the newest record.
C38_EvictedKeyIsReadmitted ==
    [][/\ (call'.op \in CheckOps /\ EvictedKey(call'))
          => ret' = IF SimilarRetained(call') THEN ATTENTION ELSE NON
       /\ SaveReadmits]_vars

\* Reached for C38: the evicted key has been saved again; its first record
\* is gone and its second one is the newest of the full store.
C38_Witness ==
    /\ call.op \in SaveOps
    /\ ret = SAVED
    /\ cat \in {"News", "Fact"}
    /\ Len(Records) = MAX_ENTRIES
    /\ WithKey(hist, NormKeyOfCall(call)) = {1, Len(hist)}
    /\ WithKey(Records, NormKeyOfCall(call)) = {MAX_ENTRIES}

=============================================================================
